---- MODULE Spec2Model ----
(***************************************************************************)
(* Model of the fast-graph run orchestration engine: the thread manager    *)
(* (PostgresThreadsManager), the stateful run service and executor         *)
(* (RunsService, GraphExecutor) and the stream queues (MemoryStreamQueue,  *)
(* RedisStreamQueue).                                                      *)
(*                                                                         *)
(* The specifications share the variables:                                 *)
(*   SpecTM    - clients calling the thread manager directly               *)
(*   Spec      - create_run_stream calls and their background executors    *)
(*   FairSpec  - Spec, every ready task of the event loop being run        *)
(*   SpecQ     - one queue with a producer, cancel() and one consumer      *)
(*   FairSpecQ - SpecQ, the consumer being resumed whenever it is ready    *)
(*   SpecS     - clients calling a thread manager (memory or Postgres)     *)
(*               whose records carry every field                           *)
(***************************************************************************)
EXTENDS Integers, Sequences, FiniteSets, TLC

(***************************************************************************)
(* Bounds                                                                  *)
(***************************************************************************)
NumClients == 2

MaxEvents == 2

\* messages the producer of SpecQ pushes
MaxPush == 3

ThreadIds == {"t1", "t2"}

\* the thread ids the create_run_stream calls are made on
RunThreads == {"t1"}

Clients == 1..NumClients

\* the create_run_stream calls of a behaviour
Calls == {1, 2}

(***************************************************************************)
(* Thread records and the thread manager's operations                      *)
(***************************************************************************)
Statuses == {"idle", "busy", "interrupted", "error"}

NonBusy == Statuses \ {"busy"}

\* metadata={} / metadata or {}
EmptyMeta == [key \in {} |-> 0]

\* the metadata the callers of create supply
CreateMeta == {EmptyMeta, [key \in {"a"} |-> 1]}

\* the row a create stores, as far as the runs look at it
NewThread == [status |-> "idle"]

\* A create that stores its row over the stored one.
TMCreateOverwrites(th, t) ==
  [x \in (DOMAIN th) \cup {t} |-> IF x = t THEN NewThread ELSE th[x]]

\* create(thread_id, if_exists="do_nothing"): INSERT ... ON CONFLICT DO NOTHING
TMCreate(th, t) ==
  IF t \in DOMAIN th
    THEN th
    ELSE [x \in (DOMAIN th) \cup {t} |-> IF x = t THEN NewThread ELSE th[x]]

\* update(thread_id, {"status": s})
TMUpdate(th, t, s) == [th EXCEPT ![t].status = s]

\* A lock condition that trusts the status read by the earlier SELECT.
LockConditionStale(cur, seen) == seen # "busy"

\* WHERE clause of the conditional UPDATE in acquire_lock; cur is the row's
\* status when the UPDATE runs, seen the status the preceding SELECT read.
LockCondition(cur, seen) == cur # "busy"

\* rowcount > 0 of the conditional UPDATE
LockRowUpdated(th, t, seen) ==
  /\ t \in DOMAIN th
  /\ LockCondition(th[t].status, seen)

VARIABLES
  threads,    \* thread store: thread id -> record, domain = stored ids
  tpc,        \* SpecTM: position of each client
  targ,       \* SpecTM: thread id of the client's acquire_lock call
  tseen,      \* SpecTM: status read by the SELECT of acquire_lock
  tres,       \* SpecTM: result of the client's last acquire_lock
  winCount,   \* history: acquire_lock calls that returned true since the
              \* thread's status was last set to a non-busy value
  lost,       \* history: some acquire_lock returned false since then
  forced,     \* history: update() set the status to busy since then
  rpc,        \* Spec: position of each create_run_stream call
  req,        \* Spec: the call's thread id and run request
  rerr,       \* Spec: error the call raised synchronously
  lseen,      \* Spec: status read by the SELECT of the call's acquire_lock
  epc,        \* Spec: position of the call's background task / executor
  cur,        \* Spec: graph event being handled
  fstatus,    \* Spec: thread status read by _finalize_execution
  exc,        \* Spec: exception caught by stream_graph
  raised,     \* Spec: exception stream_graph raised to its caller
  gst,        \* Spec: the graph run's local state
  ck,         \* Spec: checkpoint of each thread (checkpointer store)
  queues,     \* Spec: queue manager: run -> messages of its queue
  pushLog,    \* history: messages the run's executor pushed, in order
  heldBy,     \* history: call that took the lock, until a non-busy write
  sawHolder,  \* history: heldBy at the call's lock attempt
  concWith,   \* history: calls in progress when the call was made
  pre,        \* history: the thread and its checkpoint when the call took
              \* the lock
  backend,      \* SpecQ: "memory" or "redis"
  stream,       \* SpecQ: _messages (memory) / the Redis stream's entries
  cancel_event, \* SpecQ: the queue's cancel_event is set
  cancel_key,   \* SpecQ: the Redis cancel key is set
  npush,        \* SpecQ: messages the producer has pushed
  kpc,          \* SpecQ: position of the cancel() call
  cpc,          \* SpecQ: position of the on_data_receive consumer
  index,        \* SpecQ: the memory consumer's index
  last_id,      \* SpecQ: the Redis consumer's last_id
  batch,        \* SpecQ: rest of the entries the consumer's XREAD returned
  message,      \* SpecQ: the consumer's message, just yielded
  pushed,       \* history: the messages given to push(), in order
  yielded,      \* history: the messages the consumer yielded, in order
  cancelAt,     \* history: the consumer's position when cancel() was called
  initialized,  \* SpecQC: the Redis queue's _initialized
  got,          \* SpecQC: what the last get_all() returned, until the next
                \* write to the queue
  kagain,       \* history: cancel() was called again
  cleaned,      \* history: cleanup() was called: "none", "once", "again"
  xerr,         \* SpecQC: exception the last cleanup() raised
  sbackend,     \* SpecS: "memory" or "pg"
  store,        \* SpecS: _threads / the committed rows of table thread
  clock,        \* SpecS: the time datetime.now() last returned
  spc,          \* SpecS: position of each client's call
  sop,          \* SpecS: the client's call and its arguments
  snow,         \* SpecS: the call's local now
  sins,         \* SpecS: row the call's transaction inserted, not committed
  sret,         \* SpecS: what the client's last call returned or raised
  sover,        \* history: calls in progress when the call was made
  sdisturbed,   \* history: an update, delete or acquire_lock changed the
                \* store while the call was in progress
  GRAPHS,       \* SpecG: the registry: graph id -> registered definition
  heap,         \* SpecG: attributes of the compiled graph objects
  gpc,          \* SpecG: position of each request
  garg,         \* SpecG: the request's service and get_graph arguments
  ginst,        \* SpecG: the object get_graph returned to the request
  fargs,        \* SpecF: the function applied and its arguments
  fresult,      \* SpecF: what the function returned
  bservice,     \* SpecR: the service whose background task runs
  boutcome,     \* SpecR: how the graph's stream ends
  bleft,        \* SpecR: events the graph has still to stream
  bpc,          \* SpecR: position of the background task
  cbackend,     \* SpecK: the checkpointer manager in use
  cheap,        \* SpecK: the savers made, each with what it stores itself
  cpool,        \* SpecK: checkpoints in the database behind the pool
  cruns,        \* SpecK: the runs started: thread, saver, checkpoints written
  mqueues,      \* SpecM: StreamQueueManager.queues: queue id -> queue object
  mheap,        \* SpecM: the queue objects made: flag and messages
  mpc,          \* SpecM: position of each caller of the manager
  marg,         \* SpecM: queue id of the caller's cancel_queue in progress
  mret,         \* SpecM: what the caller's last call returned or raised
  mlatest,      \* history: object created last under each id, 0 if none
  mcancelled,   \* history: cancel_queue(id) was called since that creation
  movl,         \* history: calls on the id overlapped a cancel_queue(id)
  qsrc,         \* SpecCp: the queue copy_to_queue is called on
  qcopy,        \* SpecCp: the queue copy_to_queue returned
  qhist,        \* history: the call's ttl, the source's messages at the
                \* call, and the messages pushed to each queue since
  rdr           \* SpecX: the Redis stream and on_data_receive's locals

tmVars == <<tpc, targ, tseen, tres, winCount, lost, forced>>

callVars == <<rpc, req, rerr, lseen, sawHolder, concWith, pre>>

execVars == <<epc, cur, fstatus, exc, raised, gst>>

runVars == <<callVars, execVars, ck, queues, pushLog, heldBy>>

qcVars == <<initialized, got, kagain, cleaned, xerr>>

qVars == <<backend, stream, cancel_event, cancel_key, npush, kpc, cpc, index,
           last_id, batch, message, pushed, yielded, cancelAt, qcVars>>

sVars == <<sbackend, store, clock, spc, sop, snow, sins, sret, sover,
           sdisturbed>>

gVars == <<GRAPHS, heap, gpc, garg, ginst>>

fVars == <<fargs, fresult>>

bVars == <<bservice, boutcome, bleft, bpc>>

kVars == <<cbackend, cheap, cpool, cruns>>

mVars == <<mqueues, mheap, mpc, marg, mret, mlatest, mcancelled, movl>>

cpVars == <<qsrc, qcopy, qhist>>

xVars == <<rdr>>

pVars == <<fVars, bVars, kVars, mVars, cpVars, xVars>>

vars == <<threads, tmVars, runVars, qVars, sVars, gVars, pVars>>

NoThread == "none"

NoResult == "none"

NoCall == 0

NoExc == [type |-> "none", msg |-> ""]

NoEvent == [shape |-> "none", ns |-> "", mode |-> "", payload |-> [isdict |-> FALSE, keys |-> {}]]

NoRequest ==
  [thread |-> NoThread, if_not_exists |-> "reject", assistant_id |-> "none",
   kind |-> "none", auto |-> FALSE, marks |-> {}]

NoGraphState ==
  [graph |-> "none", pos |-> "none", marks |-> {}, auto |-> FALSE,
   resume |-> FALSE, rmarks |-> {}, left |-> 0]

\* checkpointer store of a thread nobody ran on
NoCheckpoint == [pos |-> "none", marks |-> {}, auto |-> FALSE, intr |-> FALSE]

NoPre == [status |-> "none", alone |-> FALSE, intr |-> FALSE, marks |-> {}]

\* the clients of SpecS
SClients == {1, 2}

NoOp == [op |-> "none", id |-> NoThread, if_exists |-> "none",
         metadata |-> EmptyMeta, has_meta |-> FALSE, status |-> "none"]

NoRow == [thread_id |-> NoThread]

NoReturn == [kind |-> "none"]

\* a thread manager of the given backend, just set up
SInit(b) ==
  /\ sbackend = b
  /\ store = << >>
  /\ clock = 0
  /\ spc = [k \in SClients |-> "idle"]
  /\ sop = [k \in SClients |-> NoOp]
  /\ snow = [k \in SClients |-> 0]
  /\ sins = [k \in SClients |-> NoRow]
  /\ sret = [k \in SClients |-> NoReturn]
  /\ sover = [k \in SClients |-> {}]
  /\ sdisturbed = [k \in SClients |-> FALSE]

\* the requests that look a graph up
GRequests == {1, 2}

NoGArg == [service |-> "none", graph_id |-> "none", config |-> "None"]

\* no object
NoObj == <<"none", 0>>

\* the registry module, just imported
GInit ==
  /\ GRAPHS = << >>
  /\ heap = << >>
  /\ gpc = [r \in GRequests |-> "idle"]
  /\ garg = [r \in GRequests |-> NoGArg]
  /\ ginst = [r \in GRequests |-> NoObj]

\* No function has been applied.
NoArgs == [fn |-> "none"]

NotApplied == [kind |-> "none"]

FInit ==
  /\ fargs = NoArgs
  /\ fresult = NotApplied

\* No background task has been created.
BInit ==
  /\ bservice = "none"
  /\ boutcome = "none"
  /\ bleft = 0
  /\ bpc = "none"

KInit(b) ==
  /\ cbackend = b
  /\ cheap = << >>
  /\ cpool = {}
  /\ cruns = << >>

MCallers == {1, 2}

QueueIds == {"q1", "q2"}

NotCalled == [op |-> "none", id |-> "none", kind |-> "none", obj |-> 0]

\* StreamQueueManager.__init__
MInit ==
  /\ mqueues = << >>
  /\ mheap = << >>
  /\ mpc = [k \in MCallers |-> "idle"]
  /\ marg = [k \in MCallers |-> "none"]
  /\ mret = [k \in MCallers |-> NotCalled]
  /\ mlatest = [id \in QueueIds |-> 0]
  /\ mcancelled = [id \in QueueIds |-> FALSE]
  /\ movl = [id \in QueueIds |-> FALSE]

NoQueue == [backend |-> "none"]

NoCopy == [called |-> FALSE]

\* a queue as its constructor leaves it
EmptyQueue(b, ttl) ==
  [backend |-> b, ttl |-> ttl, flag |-> FALSE, key |-> FALSE,
   stream |-> << >>, expire |-> 0]

CpInit(b, ttl) ==
  /\ qsrc = EmptyQueue(b, ttl)
  /\ qcopy = NoQueue
  /\ qhist = NoCopy

\* no reader runs
NoReader ==
  [pc |-> "none", entries |-> << >>, last_id |-> 0, retry_count |-> 0,
   batch |-> << >>, errors |-> 0]

XInit == rdr = NoReader

PInit ==
  /\ FInit
  /\ BInit
  /\ KInit("pg")
  /\ MInit
  /\ CpInit("memory", 300)
  /\ XInit

NoMessage == [event |-> "none", data |-> "none"]

\* no result of get_all() is being looked at
NoGot == [called |-> FALSE, list |-> << >>]

\* a queue of the given backend, just constructed
QInit(b) ==
  /\ backend = b
  /\ stream = << >>
  /\ cancel_event = FALSE
  /\ cancel_key = FALSE
  /\ npush = 0
  /\ kpc = "none"
  /\ cpc = "none"
  /\ index = 0
  /\ last_id = 0
  /\ batch = << >>
  /\ message = NoMessage
  /\ pushed = << >>
  /\ yielded = << >>
  /\ cancelAt = "none"
  /\ initialized = FALSE
  /\ got = NoGot
  /\ kagain = FALSE
  /\ cleaned = "none"
  /\ xerr = "none"

RunInit ==
  /\ pre = [c \in Calls |-> NoPre]
  /\ rpc = [c \in Calls |-> "idle"]
  /\ req = [c \in Calls |-> NoRequest]
  /\ rerr = [c \in Calls |-> "none"]
  /\ lseen = [c \in Calls |-> "none"]
  /\ epc = [c \in Calls |-> "none"]
  /\ cur = [c \in Calls |-> NoEvent]
  /\ fstatus = [c \in Calls |-> "none"]
  /\ exc = [c \in Calls |-> NoExc]
  /\ raised = [c \in Calls |-> NoExc]
  /\ gst = [c \in Calls |-> NoGraphState]
  /\ ck = [t \in ThreadIds |-> NoCheckpoint]
  /\ queues = << >>
  /\ pushLog = [c \in Calls |-> << >>]
  /\ heldBy = [t \in ThreadIds |-> NoCall]
  /\ sawHolder = [c \in Calls |-> NoCall]
  /\ concWith = [c \in Calls |-> {}]

TMInit ==
  /\ tpc = [k \in Clients |-> "idle"]
  /\ targ = [k \in Clients |-> NoThread]
  /\ tseen = [k \in Clients |-> "none"]
  /\ tres = [k \in Clients |-> NoResult]
  /\ winCount = [t \in ThreadIds |-> 0]
  /\ lost = [t \in ThreadIds |-> FALSE]
  /\ forced = [t \in ThreadIds |-> FALSE]

InitTM ==
  /\ threads = << >>
  /\ TMInit
  /\ RunInit
  /\ QInit("memory")
  /\ SInit("memory")
  /\ GInit
  /\ PInit

\* A client creates a thread (create with if_exists="do_nothing").
TMCallCreate(k, t) ==
  /\ tpc[k] = "idle"
  /\ t \notin DOMAIN threads
  /\ threads' = TMCreate(threads, t)
  /\ UNCHANGED <<tmVars, runVars>>
  /\ UNCHANGED qVars
  /\ UNCHANGED sVars
  /\ UNCHANGED gVars
  /\ UNCHANGED pVars

\* acquire_lock, first statement: SELECT the row; absent -> ResourceNotFoundError
TMAcquireSelect(k, t) ==
  /\ tpc[k] = "idle"
  /\ targ' = [targ EXCEPT ![k] = t]
  /\ IF t \in DOMAIN threads
       THEN /\ tpc' = [tpc EXCEPT ![k] = "acq_update"]
            /\ tseen' = [tseen EXCEPT ![k] = threads[t].status]
            /\ tres' = tres
       ELSE /\ tpc' = [tpc EXCEPT ![k] = "ret"]
            /\ tseen' = tseen
            /\ tres' = [tres EXCEPT ![k] = "ResourceNotFoundError"]
  /\ UNCHANGED <<threads, winCount, lost, forced, runVars>>
  /\ UNCHANGED qVars
  /\ UNCHANGED sVars
  /\ UNCHANGED gVars
  /\ UNCHANGED pVars

\* acquire_lock, second statement: UPDATE ... WHERE status != 'busy';
\* returns rowcount > 0
TMAcquireUpdate(k) ==
  /\ tpc[k] = "acq_update"
  /\ LET t == targ[k]
         ok == LockRowUpdated(threads, t, tseen[k])
     IN /\ threads' = IF ok THEN TMUpdate(threads, t, "busy") ELSE threads
        /\ tres' = [tres EXCEPT ![k] = IF ok THEN "true" ELSE "false"]
        /\ winCount' = IF ok THEN [winCount EXCEPT ![t] = @ + 1] ELSE winCount
        /\ lost' = IF ok THEN lost ELSE [lost EXCEPT ![t] = TRUE]
  /\ tpc' = [tpc EXCEPT ![k] = "ret"]
  /\ UNCHANGED <<targ, tseen, forced, runVars>>
  /\ UNCHANGED qVars
  /\ UNCHANGED sVars
  /\ UNCHANGED gVars
  /\ UNCHANGED pVars

\* The caller takes the result; the client may issue another call.
TMReturn(k) ==
  /\ tpc[k] = "ret"
  /\ tpc' = [tpc EXCEPT ![k] = "idle"]
  /\ targ' = [targ EXCEPT ![k] = NoThread]
  /\ tseen' = [tseen EXCEPT ![k] = "none"]
  /\ tres' = [tres EXCEPT ![k] = NoResult]
  /\ UNCHANGED <<threads, winCount, lost, forced, runVars>>
  /\ UNCHANGED qVars
  /\ UNCHANGED sVars
  /\ UNCHANGED gVars
  /\ UNCHANGED pVars

\* update(thread_id, {"status": s}) on a stored thread
TMCallUpdate(k, t, s) ==
  /\ tpc[k] = "idle"
  /\ t \in DOMAIN threads
  /\ threads' = TMUpdate(threads, t, s)
  /\ IF s = "busy"
       THEN /\ forced' = [forced EXCEPT ![t] = TRUE]
            /\ UNCHANGED <<winCount, lost>>
       ELSE /\ forced' = [forced EXCEPT ![t] = FALSE]
            /\ winCount' = [winCount EXCEPT ![t] = 0]
            /\ lost' = [lost EXCEPT ![t] = FALSE]
  /\ UNCHANGED <<tpc, targ, tseen, tres, runVars>>
  /\ UNCHANGED qVars
  /\ UNCHANGED sVars
  /\ UNCHANGED gVars
  /\ UNCHANGED pVars

NextTM ==
  \/ \E k \in Clients, t \in ThreadIds : TMCallCreate(k, t)
  \/ \E k \in Clients, t \in ThreadIds : TMAcquireSelect(k, t)
  \/ \E k \in Clients : TMAcquireUpdate(k)
  \/ \E k \in Clients : TMReturn(k)
  \/ \E k \in Clients, t \in ThreadIds, s \in Statuses : TMCallUpdate(k, t, s)

SpecTM == InitTM /\ [][NextTM]_vars

(***************************************************************************)
(* Event messages (EventMessage) and the executor's event normalisation    *)
(***************************************************************************)
\* Python's None where a string is optional.
None == "None"

PlainPayload == [isdict |-> TRUE, keys |-> {"content"}]

InterruptPayload == [isdict |-> TRUE, keys |-> {"__interrupt__"}]

\* the interrupt test when every mapping counts as an interrupt
IsInterruptAnyDict(payload) == payload.isdict

\* isinstance(event_data, dict) and "__interrupt__" in event_data
IsInterrupt(payload) == payload.isdict /\ "__interrupt__" \in payload.keys

\* event_type: "values" for a bare payload, else the tuple's mode
EventType(e) == IF e.shape = "bare" THEN "values" ELSE e.mode

\* The message data when the payload is never wrapped.
MessageDataUnwrapped(e) == e.payload

\* message_data: the payload, wrapped with its namespace when the event is
\* a 3-tuple whose namespace is not None
MessageData(e) ==
  IF e.shape = "triple" /\ e.ns # None
    THEN [namespace |-> e.ns, data |-> e.payload]
    ELSE e.payload

EventMsg(e) == [event |-> EventType(e), data |-> MessageData(e)]

\* A metadata message that names the assistant only.
MetadataMsgWithoutThread(t, a) ==
  [event |-> "metadata", data |-> [assistant_id |-> a]]

MetadataMsg(t, a) ==
  [event |-> "metadata", data |-> [thread_id |-> t, assistant_id |-> a]]

EndMsg(s) == [event |-> "__stream_end__", data |-> [status |-> s]]

ErrorMsg(x) ==
  [event |-> "__stream_error__", data |-> [error |-> x.msg, type |-> x.type]]

TerminalKinds == {"__stream_end__", "__stream_error__", "__stream_cancel__"}

\* the messages of kind k in a sequence of messages
OfKind(q, k) == SelectSeq(q, LAMBDA m : m.event = k)

(***************************************************************************)
(* Graphs.  "demo" is graph_demo.graph.create_graph:                       *)
(*   chat -> hitl (interrupts unless auto_accepted) -> error (raises when  *)
(*   the content holds "error") -> normal -> END, with hitl -> END when    *)
(*   the content holds "REJECTED".  The content is kept as the set of the  *)
(*   marker substrings it holds.  "any" is an arbitrary registered graph:  *)
(*   it may produce up to MaxEvents events, plain or interrupts, and then  *)
(*   end or raise; its last event may be one whose payload is None.        *)
(***************************************************************************)
RegisteredAssistants == {"demo", "any"}

RuntimeErrorExc == [type |-> "RuntimeError", msg |-> "error in content"]

EmptyInputExc == [type |-> "EmptyInputError", msg |-> "nothing to resume"]

NodeFailedExc == [type |-> "ValueError", msg |-> "node failed"]

\* a (mode, payload) pair of stream mode "values"
ValuesEvent == [shape |-> "pair", ns |-> "", mode |-> "values", payload |-> PlainPayload]

\* the interrupt chunk of the demo graph
DemoInterruptEvent ==
  [shape |-> "pair", ns |-> "", mode |-> "values", payload |-> InterruptPayload]

\* a bare payload
BareEvent == [shape |-> "bare", ns |-> "", mode |-> "", payload |-> PlainPayload]

\* an interrupt raised inside a subgraph: (namespace, mode, payload)
SubgraphInterruptEvent ==
  [shape |-> "triple", ns |-> "sub", mode |-> "updates", payload |-> InterruptPayload]

\* a (mode, payload) pair whose payload is None
NonePayloadEvent ==
  [shape |-> "pair", ns |-> "", mode |-> "updates",
   payload |-> [isdict |-> FALSE, keys |-> {}]]

\* _prepare_input and the engine's start: a Command continues from the
\* thread's checkpoint, an input starts at the first node.
GraphStart(rq, ckt) ==
  IF rq.assistant_id = "any"
    THEN [NoGraphState EXCEPT !.graph = "any", !.left = MaxEvents]
    ELSE IF rq.kind = "command"
      THEN [graph |-> "demo", pos |-> ckt.pos, marks |-> ckt.marks,
            auto |-> ckt.auto, resume |-> ckt.intr, rmarks |-> rq.marks,
            left |-> 0]
      ELSE [graph |-> "demo", pos |-> "chat", marks |-> rq.marks,
            auto |-> rq.auto, resume |-> FALSE, rmarks |-> {}, left |-> 0]

Outcome(o, e, g, k, x) == [out |-> o, ev |-> e, g |-> g, ck |-> k, exc |-> x]

CkAt(g, p, i) == [pos |-> p, marks |-> g.marks, auto |-> g.auto, intr |-> i]

HitlInterruptsAgain(g) == ~g.auto

\* node_hitl interrupts when not auto_accepted and no resume value is there
HitlInterrupts(g) == ~g.auto /\ ~g.resume

\* content after node_hitl: the resume value is appended
HitlMarks(g) == IF ~g.auto /\ g.resume THEN g.marks \cup g.rmarks ELSE g.marks

\* router_from_hitl
RouterFromHitl(marks) == IF "REJECTED" \in marks THEN "end" ELSE "error"

\* one step of the demo graph's event stream
DemoOutcomes(g, ckt) ==
  CASE g.pos = "chat" ->
         {Outcome("event", ValuesEvent, [g EXCEPT !.pos = "hitl"],
                  CkAt(g, "hitl", FALSE), NoExc)}
    [] g.pos = "hitl" ->
         IF HitlInterrupts(g)
           THEN {Outcome("event", DemoInterruptEvent, [g EXCEPT !.pos = "stopped"],
                         CkAt(g, "hitl", TRUE), NoExc)}
           ELSE LET g2 == [g EXCEPT !.marks = HitlMarks(g),
                                    !.pos = RouterFromHitl(HitlMarks(g))]
                IN {Outcome("event", ValuesEvent, g2, CkAt(g2, g2.pos, FALSE), NoExc)}
    [] g.pos = "error" ->
         IF "error" \in g.marks
           THEN {Outcome("raise", NoEvent, [g EXCEPT !.pos = "failed"],
                         CkAt(g, "error", FALSE), RuntimeErrorExc)}
           ELSE {Outcome("event", ValuesEvent, [g EXCEPT !.pos = "normal"],
                         CkAt(g, "normal", FALSE), NoExc)}
    [] g.pos = "normal" ->
         {Outcome("event", ValuesEvent, [g EXCEPT !.pos = "end"],
                  CkAt(g, "end", FALSE), NoExc)}
    [] g.pos = "none" ->
         {Outcome("done", NoEvent, [g EXCEPT !.pos = "stopped"], ckt, NoExc),
          Outcome("raise", NoEvent, [g EXCEPT !.pos = "failed"], ckt, EmptyInputExc)}
    [] OTHER ->
         {Outcome("done", NoEvent, g, ckt, NoExc)}

\* one step of an arbitrary graph's event stream
AnyOutcomes(g, ckt) ==
  {Outcome("done", NoEvent, [g EXCEPT !.left = 0], ckt, NoExc),
   Outcome("raise", NoEvent, [g EXCEPT !.left = 0], ckt, NodeFailedExc)}
  \cup (IF g.left > 0
          THEN {Outcome("event", e, [g EXCEPT !.left = @ - 1], ckt, NoExc) :
                  e \in {IF g.left = 1 THEN NonePayloadEvent ELSE BareEvent,
                         SubgraphInterruptEvent}}
          ELSE {})

GraphOutcomes(g, ckt) ==
  IF g.graph = "any" THEN AnyOutcomes(g, ckt) ELSE DemoOutcomes(g, ckt)

(***************************************************************************)
(* C1: of the acquire_lock calls made on a thread since its status was     *)
(* last set to a non-busy value, exactly one returns true and all others   *)
(* return false, and the thread stays busy until an update releases it.    *)
(***************************************************************************)
C1_ExactlyOneLockWinner ==
  \A t \in ThreadIds :
    /\ winCount[t] <= 1
    /\ (winCount[t] = 1 /\ t \in DOMAIN threads) => threads[t].status = "busy"
    /\ (lost[t] /\ ~forced[t]) => winCount[t] = 1

\* Two calls raced on a non-busy thread: both SELECTs saw it non-busy, one
\* call returned true, the other false.
C1_Witness ==
  \E k1, k2 \in Clients :
    /\ k1 # k2
    /\ targ[k1] = targ[k2]
    /\ tres[k1] = "true"
    /\ tres[k2] = "false"
    /\ tseen[k1] \in NonBusy
    /\ tseen[k2] \in NonBusy

(***************************************************************************)
(* Stateful runs: RunsService.create_run_stream and GraphExecutor          *)
(***************************************************************************)
\* the run requests the calls draw from
Payloads ==
  {[assistant_id |-> "demo", kind |-> "input", auto |-> FALSE, marks |-> {}],
   [assistant_id |-> "demo", kind |-> "input", auto |-> TRUE, marks |-> {}],
   [assistant_id |-> "demo", kind |-> "input", auto |-> TRUE, marks |-> {"error"}],
   [assistant_id |-> "demo", kind |-> "input", auto |-> FALSE, marks |-> {"error"}],
   [assistant_id |-> "demo", kind |-> "command", auto |-> FALSE, marks |-> {"APPROVED"}],
   [assistant_id |-> "any", kind |-> "input", auto |-> FALSE, marks |-> {}],
   [assistant_id |-> "missing", kind |-> "input", auto |-> FALSE, marks |-> {}]}

Requests ==
  {[thread |-> t, if_not_exists |-> p, assistant_id |-> y.assistant_id,
    kind |-> y.kind, auto |-> y.auto, marks |-> y.marks] :
     t \in RunThreads, p \in {"create", "reject"}, y \in Payloads}

\* the call is inside create_run_stream
InCall(c) == rpc[c] \in {"lock_select", "lock_update", "resolve"}

\* stream_graph of the call's run has returned or raised
RunEnded(c) == epc[c] \in {"bg_finally", "finished"}

\* the call holds the lock: from acquire_lock's success until its executor
\* has pushed the terminal event and written the final status
RunInProgress(c) ==
  /\ \/ rpc[c] = "returned"
     \/ rpc[c] = "resolve" /\ req[c].assistant_id \in RegisteredAssistants
  /\ ~RunEnded(c)

\* a create_run_stream that re-enters the lock attempt after a refusal
LockOutcomeRetry(ok) == IF ok THEN "resolve" ELSE "lock_select"

\* create_run_stream after acquire_lock: go on, or raise ValidationError
LockOutcome(ok) == IF ok THEN "resolve" ELSE "failed"

\* a finalisation that leaves the lock status in place
SuccessStatusStuck == "busy"

\* the status _finalize_execution writes after a successful run
SuccessStatus == "idle"

\* queue.push(message) on the run's queue
Push(c, m) ==
  /\ queues' = [queues EXCEPT ![c] = Append(@, m)]
  /\ pushLog' = [pushLog EXCEPT ![c] = Append(@, m)]

\* the thread manager's update as the executor calls it; a non-busy status
\* ends the tenure of the call that took the lock
ExecUpdate(t, s) ==
  /\ threads' = TMUpdate(threads, t, s)
  /\ heldBy' = IF s = "busy" THEN heldBy ELSE [heldBy EXCEPT ![t] = NoCall]

\* the thread manager's get and update on a thread id that is not stored
NotFoundExc == [type |-> "ResourceNotFoundError", msg |-> "thread not found"]

\* a call of the executor on the thread manager that raised: the store is
\* left as it was and the exception is caught by stream_graph's except
ExecRaise(c, x) ==
  /\ threads' = threads
  /\ heldBy' = heldBy
  /\ exc' = [exc EXCEPT ![c] = x]
  /\ epc' = [epc EXCEPT ![c] = "err_push"]

\* the thread manager's delete, called while no create_run_stream is
\* between its thread resolution and its return
ApiDeleteThread(t) ==
  /\ t \in DOMAIN threads
  /\ \A c \in Calls : InCall(c) => req[c].thread # t
  /\ threads' = [u \in DOMAIN threads \ {t} |-> threads[u]]
  /\ UNCHANGED <<tmVars, runVars>>
  /\ UNCHANGED qVars
  /\ UNCHANGED sVars
  /\ UNCHANGED gVars
  /\ UNCHANGED pVars

\* POST /threads: ThreadsService.create_thread on an id not stored yet
ApiCreateThread(t) ==
  /\ t \notin DOMAIN threads
  /\ threads' = TMCreate(threads, t)
  /\ UNCHANGED <<tmVars, runVars>>
  /\ UNCHANGED qVars
  /\ UNCHANGED sVars
  /\ UNCHANGED gVars
  /\ UNCHANGED pVars

\* A resolution that creates the thread whatever if_not_exists says.
ResolveThreadAlwaysCreates(th, r) == TMCreate(th, r.thread)

\* the thread store after the if_not_exists step: "create" calls
\* create_thread(thread_id, metadata={}, if_exists="do_nothing"), anything
\* else only reads
ResolveThread(th, r) ==
  IF r.if_not_exists = "create"
    THEN TMCreate(th, r.thread)
    ELSE th

\* create_run_stream, thread resolution (if_not_exists); the calls are
\* numbered in the order in which they are made
CallStart(c, r) ==
  /\ rpc[c] = "idle"
  /\ \A d \in Calls : d < c => rpc[d] # "idle"
  /\ req' = [req EXCEPT ![c] = r]
  /\ concWith' = [concWith EXCEPT ![c] = {d \in Calls : InCall(d)}]
  /\ threads' = ResolveThread(threads, r)
  /\ IF r.thread \in DOMAIN threads'
       THEN /\ rpc' = [rpc EXCEPT ![c] = "lock_select"]
            /\ rerr' = rerr
       ELSE /\ rpc' = [rpc EXCEPT ![c] = "failed"]
            /\ rerr' = [rerr EXCEPT ![c] = "ResourceNotFoundError"]
  /\ UNCHANGED <<tmVars, lseen, sawHolder, pre, execVars, ck, queues, pushLog, heldBy>>
  /\ UNCHANGED qVars
  /\ UNCHANGED sVars
  /\ UNCHANGED gVars
  /\ UNCHANGED pVars

\* acquire_lock, SELECT of the row
LockSelect(c) ==
  /\ rpc[c] = "lock_select"
  /\ lseen' = [lseen EXCEPT ![c] = threads[req[c].thread].status]
  /\ rpc' = [rpc EXCEPT ![c] = "lock_update"]
  /\ UNCHANGED <<threads, tmVars, req, rerr, sawHolder, concWith, pre, execVars,
                 ck, queues, pushLog, heldBy>>
  /\ UNCHANGED qVars
  /\ UNCHANGED sVars
  /\ UNCHANGED gVars
  /\ UNCHANGED pVars

\* acquire_lock, conditional UPDATE; false -> ValidationError ("currently busy")
LockUpdate(c) ==
  /\ rpc[c] = "lock_update"
  /\ LET t == req[c].thread
         ok == LockRowUpdated(threads, t, lseen[c])
     IN /\ sawHolder' = [sawHolder EXCEPT ![c] = heldBy[t]]
        /\ rpc' = [rpc EXCEPT ![c] = LockOutcome(ok)]
        /\ IF ok
             THEN /\ threads' = TMUpdate(threads, t, "busy")
                  /\ heldBy' = [heldBy EXCEPT ![t] = c]
                  /\ pre' = [pre EXCEPT ![c] =
                               [status |-> threads[t].status,
                                alone |-> \A d \in Calls \ {c} : ~RunInProgress(d),
                                intr |-> ck[t].pos = "hitl" /\ ck[t].intr,
                                marks |-> ck[t].marks]]
                  /\ rerr' = rerr
             ELSE /\ threads' = threads
                  /\ heldBy' = heldBy
                  /\ pre' = pre
                  /\ rerr' = [rerr EXCEPT ![c] = "ValidationError"]
  /\ lseen' = [lseen EXCEPT ![c] = "none"]
  /\ UNCHANGED <<tmVars, req, concWith, execVars, ck, queues, pushLog>>
  /\ UNCHANGED qVars
  /\ UNCHANGED sVars
  /\ UNCHANGED gVars
  /\ UNCHANGED pVars

\* graph.checkpointer = get_checkpointer(): the checkpoints of the thread
\* the run's saver reads. A saver of the Postgres manager reads the
\* database every run wrote to; the InMemorySaver made for this run holds
\* nothing.
AttachedStore(stored) == IF cbackend = "memory" THEN NoCheckpoint ELSE stored

\* assistant and graph lookup, queue creation, launch of the background
\* task, return of the StreamingResponse
Resolve(c) ==
  /\ rpc[c] = "resolve"
  /\ IF req[c].assistant_id \in RegisteredAssistants
       THEN /\ queues' = [x \in (DOMAIN queues) \cup {c} |->
                            IF x = c THEN << >> ELSE queues[x]]
            /\ ck' = [ck EXCEPT ![req[c].thread] = AttachedStore(@)]
            /\ epc' = [epc EXCEPT ![c] = "set_busy"]
            /\ rpc' = [rpc EXCEPT ![c] = "returned"]
            /\ rerr' = rerr
       ELSE /\ queues' = queues
            /\ ck' = ck
            /\ epc' = epc
            /\ rpc' = [rpc EXCEPT ![c] = "failed"]
            /\ rerr' = [rerr EXCEPT ![c] = "GraphNotFoundError"]
  /\ UNCHANGED <<threads, tmVars, req, lseen, sawHolder, concWith, pre, cur,
                 fstatus, exc, raised, gst, pushLog, heldBy>>
  /\ UNCHANGED qVars
  /\ UNCHANGED sVars
  /\ UNCHANGED gVars
  /\ UNCHANGED pVars

\* stream_graph: update(thread_id, {"status": busy})
ExecSetBusy(c) ==
  /\ epc[c] = "set_busy"
  /\ IF req[c].thread \in DOMAIN threads
       THEN /\ ExecUpdate(req[c].thread, "busy")
            /\ epc' = [epc EXCEPT ![c] = "push_meta"]
            /\ exc' = exc
       ELSE ExecRaise(c, NotFoundExc)
  /\ UNCHANGED <<tmVars, callVars, cur, fstatus, raised, gst, ck, queues, pushLog>>
  /\ UNCHANGED qVars
  /\ UNCHANGED sVars
  /\ UNCHANGED gVars
  /\ UNCHANGED pVars

\* stream_graph: push of the metadata event
ExecPushMeta(c) ==
  /\ epc[c] = "push_meta"
  /\ Push(c, MetadataMsg(req[c].thread, req[c].assistant_id))
  /\ epc' = [epc EXCEPT ![c] = "astream"]
  /\ UNCHANGED <<threads, tmVars, callVars, cur, fstatus, exc, raised, gst, ck, heldBy>>
  /\ UNCHANGED qVars
  /\ UNCHANGED sVars
  /\ UNCHANGED gVars
  /\ UNCHANGED pVars

\* stream_graph: the next item of graph.astream(...): an event, the end of
\* the sequence, or an exception
AStreamNext(c) ==
  /\ epc[c] = "astream"
  /\ LET t == req[c].thread
         g0 == IF gst[c].graph = "none" THEN GraphStart(req[c], ck[t]) ELSE gst[c]
     IN \E o \in GraphOutcomes(g0, ck[t]) :
          /\ gst' = [gst EXCEPT ![c] = IF o.out = "event" THEN o.g ELSE NoGraphState]
          /\ ck' = [ck EXCEPT ![t] = o.ck]
          /\ cur' = [cur EXCEPT ![c] = o.ev]
          /\ exc' = [exc EXCEPT ![c] = o.exc]
          /\ epc' = [epc EXCEPT ![c] =
                       CASE o.out = "raise" -> "err_push"
                         [] o.out = "done" -> "fin_get"
                         [] OTHER -> IF IsInterrupt(o.ev.payload)
                                       THEN "handle_intr" ELSE "handle_push"]
  /\ UNCHANGED <<threads, tmVars, callVars, fstatus, raised, queues, pushLog, heldBy>>
  /\ UNCHANGED qVars
  /\ UNCHANGED sVars
  /\ UNCHANGED gVars
  /\ UNCHANGED pVars

\* _handle_event: an interrupt event sets the thread status to interrupted
HandleInterrupt(c) ==
  /\ epc[c] = "handle_intr"
  /\ IF req[c].thread \in DOMAIN threads
       THEN /\ ExecUpdate(req[c].thread, "interrupted")
            /\ epc' = [epc EXCEPT ![c] = "handle_push"]
            /\ exc' = exc
            /\ cur' = cur
            /\ gst' = gst
       ELSE /\ ExecRaise(c, NotFoundExc)
            /\ cur' = [cur EXCEPT ![c] = NoEvent]
            /\ gst' = [gst EXCEPT ![c] = NoGraphState]
  /\ UNCHANGED <<tmVars, callVars, fstatus, raised, ck, queues, pushLog>>
  /\ UNCHANGED qVars
  /\ UNCHANGED sVars
  /\ UNCHANGED gVars
  /\ UNCHANGED pVars

\* _handle_event: push of the normalised event message
HandlePush(c) ==
  /\ epc[c] = "handle_push"
  /\ Push(c, EventMsg(cur[c]))
  /\ cur' = [cur EXCEPT ![c] = NoEvent]
  /\ epc' = [epc EXCEPT ![c] = "astream"]
  /\ UNCHANGED <<threads, tmVars, callVars, fstatus, exc, raised, gst, ck, heldBy>>
  /\ UNCHANGED qVars
  /\ UNCHANGED sVars
  /\ UNCHANGED gVars
  /\ UNCHANGED pVars

\* _finalize_execution: thread_manager.get(thread_id)
FinalizeGet(c) ==
  /\ epc[c] = "fin_get"
  /\ IF req[c].thread \in DOMAIN threads
       THEN /\ fstatus' = [fstatus EXCEPT ![c] = threads[req[c].thread].status]
            /\ epc' = [epc EXCEPT ![c] = "fin_push"]
            /\ UNCHANGED <<threads, heldBy, exc>>
       ELSE /\ ExecRaise(c, NotFoundExc)
            /\ fstatus' = fstatus
  /\ UNCHANGED <<tmVars, callVars, cur, raised, gst, ck, queues, pushLog>>
  /\ UNCHANGED qVars
  /\ UNCHANGED sVars
  /\ UNCHANGED gVars
  /\ UNCHANGED pVars

\* the status label of __stream_end__ when the label is fixed to success
EndStatusAlwaysSuccess(st) == "success"

\* _finalize_execution: the status label of __stream_end__
EndStatus(st) == IF st = "interrupted" THEN "interrupted" ELSE "success"

\* _finalize_execution: push of __stream_end__; the interrupted branch ends here
FinalizePush(c) ==
  /\ epc[c] = "fin_push"
  /\ Push(c, EndMsg(EndStatus(fstatus[c])))
  /\ epc' = [epc EXCEPT ![c] =
               IF fstatus[c] = "interrupted" THEN "bg_finally" ELSE "fin_update"]
  /\ fstatus' = [fstatus EXCEPT ![c] = "none"]
  /\ UNCHANGED <<threads, tmVars, callVars, cur, exc, raised, gst, ck, heldBy>>
  /\ UNCHANGED qVars
  /\ UNCHANGED sVars
  /\ UNCHANGED gVars
  /\ UNCHANGED pVars

\* _finalize_execution: update(thread_id, {"status": idle}) after success
FinalizeUpdate(c) ==
  /\ epc[c] = "fin_update"
  /\ IF req[c].thread \in DOMAIN threads
       THEN /\ ExecUpdate(req[c].thread, SuccessStatus)
            /\ epc' = [epc EXCEPT ![c] = "bg_finally"]
            /\ exc' = exc
       ELSE ExecRaise(c, NotFoundExc)
  /\ UNCHANGED <<tmVars, callVars, cur, fstatus, raised, gst, ck, queues, pushLog>>
  /\ UNCHANGED qVars
  /\ UNCHANGED sVars
  /\ UNCHANGED gVars
  /\ UNCHANGED pVars

\* _handle_error: push of __stream_error__
ErrorPush(c) ==
  /\ epc[c] = "err_push"
  /\ Push(c, ErrorMsg(exc[c]))
  /\ epc' = [epc EXCEPT ![c] = "err_update"]
  /\ UNCHANGED <<threads, tmVars, callVars, cur, fstatus, exc, raised, gst, ck, heldBy>>
  /\ UNCHANGED qVars
  /\ UNCHANGED sVars
  /\ UNCHANGED gVars
  /\ UNCHANGED pVars

\* an except clause that swallows the exception
ReraisedNothing(x) == NoExc

\* stream_graph's except clause: "raise" re-raises the caught exception
Reraised(x) == x

\* _handle_error: update(thread_id, {"status": error}); then stream_graph
\* re-raises
ErrorUpdate(c) ==
  /\ epc[c] = "err_update"
  /\ IF req[c].thread \in DOMAIN threads
       THEN /\ ExecUpdate(req[c].thread, "error")
            /\ raised' = [raised EXCEPT ![c] = Reraised(exc[c])]
       ELSE /\ threads' = threads
            /\ heldBy' = heldBy
            /\ raised' = [raised EXCEPT ![c] = NotFoundExc]
  /\ epc' = [epc EXCEPT ![c] = "bg_finally"]
  /\ UNCHANGED <<tmVars, callVars, cur, fstatus, exc, gst, ck, queues, pushLog>>
  /\ UNCHANGED qVars
  /\ UNCHANGED sVars
  /\ UNCHANGED gVars
  /\ UNCHANGED pVars

\* execute_graph: the exception, if any, is logged; after the grace delay
\* queue.cleanup() clears the queue's messages
BgCleanup(c) ==
  /\ epc[c] = "bg_finally"
  /\ queues' = [queues EXCEPT ![c] = << >>]
  /\ epc' = [epc EXCEPT ![c] = "finished"]
  /\ UNCHANGED <<threads, tmVars, callVars, cur, fstatus, exc, raised, gst, ck,
                 pushLog, heldBy>>
  /\ UNCHANGED qVars
  /\ UNCHANGED sVars
  /\ UNCHANGED gVars
  /\ UNCHANGED pVars

Init ==
  /\ threads = << >>
  /\ TMInit
  /\ RunInit
  /\ QInit("memory")
  /\ SInit("memory")
  /\ GInit
  /\ PInit

Next ==
  \/ \E t \in RunThreads : ApiCreateThread(t)
  \/ \E c \in Calls, r \in Requests : CallStart(c, r)
  \/ \E c \in Calls : LockSelect(c)
  \/ \E c \in Calls : LockUpdate(c)
  \/ \E c \in Calls : Resolve(c)
  \/ \E c \in Calls : ExecSetBusy(c)
  \/ \E c \in Calls : ExecPushMeta(c)
  \/ \E c \in Calls : AStreamNext(c)
  \/ \E c \in Calls : HandleInterrupt(c)
  \/ \E c \in Calls : HandlePush(c)
  \/ \E c \in Calls : FinalizeGet(c)
  \/ \E c \in Calls : FinalizePush(c)
  \/ \E c \in Calls : FinalizeUpdate(c)
  \/ \E c \in Calls : ErrorPush(c)
  \/ \E c \in Calls : ErrorUpdate(c)
  \/ \E c \in Calls : BgCleanup(c)

Spec == Init /\ [][Next]_vars

\* The same service with MemoryCheckpointerManager configured.
InitMC ==
  /\ threads = << >>
  /\ TMInit
  /\ RunInit
  /\ QInit("memory")
  /\ SInit("memory")
  /\ GInit
  /\ FInit
  /\ BInit
  /\ KInit("memory")
  /\ MInit
  /\ CpInit("memory", 300)
  /\ XInit

SpecMC == InitMC /\ [][Next]_vars

\* one step of the call's background task
ExecStep(c) ==
  \/ ExecSetBusy(c)
  \/ ExecPushMeta(c)
  \/ AStreamNext(c)
  \/ HandleInterrupt(c)
  \/ HandlePush(c)
  \/ FinalizeGet(c)
  \/ FinalizePush(c)
  \/ FinalizeUpdate(c)
  \/ ErrorPush(c)
  \/ ErrorUpdate(c)
  \/ BgCleanup(c)

\* The same service when the thread manager's delete is called as well.
\* Its requests are runs of the arbitrary graph on thread t1, created when
\* absent.
RequestsD ==
  {r \in Requests :
     r.thread = "t1" /\ r.if_not_exists = "create" /\ r.assistant_id = "any"}

NextD ==
  \/ \E c \in Calls, r \in RequestsD : CallStart(c, r)
  \/ \E c \in Calls : LockSelect(c)
  \/ \E c \in Calls : LockUpdate(c)
  \/ \E c \in Calls : Resolve(c)
  \/ \E c \in Calls : ExecStep(c)
  \/ \E t \in RunThreads : ApiDeleteThread(t)

SpecD == Init /\ [][NextD]_vars

\* one step of the call itself, once made
CallStep(c) == LockSelect(c) \/ LockUpdate(c) \/ Resolve(c)

\* The event loop runs every task that is ready: a started call and a
\* launched background task keep taking their steps.
FairSpec ==
  /\ Spec
  /\ \A c \in Calls : WF_vars(CallStep(c)) /\ WF_vars(ExecStep(c))

Last(q) == q[Len(q)]

CallsOn(t) == {c \in Calls : req[c].thread = t}

\* the step of the call's executor that ends stream_graph
EndsRun(c) == ~RunEnded(c) /\ RunEnded(c)'

(***************************************************************************)
(* C2: in every reachable state at most one stateful run is in progress    *)
(* on each thread (from the lock's acquisition until the executor has      *)
(* pushed the terminal event and written the final status).                *)
(***************************************************************************)
C2_AtMostOneRunPerThread ==
  \A t \in ThreadIds :
    Cardinality({c \in CallsOn(t) : RunInProgress(c)}) <= 1

(***************************************************************************)
(* C3 as stated: of two create_run_stream calls made concurrently on the   *)
(* same thread with registered assistants, once both have returned or      *)
(* failed, one has returned a stream and the other has failed with the     *)
(* "currently busy" ValidationError.                                       *)
(***************************************************************************)
Concurrent(c1, c2) == c1 \in concWith[c2] \/ c2 \in concWith[c1]

C4_BusyFailsAtOnce ==
  [][\A c \in Calls :
       /\ ( /\ rpc[c] = "lock_update"
            /\ rpc'[c] # "lock_update"
            /\ threads[req[c].thread].status = "busy" )
          => /\ rpc'[c] = "failed"
             /\ rerr'[c] = "ValidationError"
             /\ threads' = threads
             /\ queues' = queues
             /\ epc' = epc
       /\ rerr'[c] = "ValidationError"
          => /\ rpc'[c] = "failed"
             /\ c \notin DOMAIN queues'
             /\ epc'[c] = "none"
             /\ pushLog'[c] = << >>]_vars

\* A call was refused while another call's run was in progress.
C4_Witness ==
  \E c, d \in Calls :
    /\ rerr[c] = "ValidationError"
    /\ RunInProgress(d)
    /\ threads[req[c].thread].status = "busy"

(***************************************************************************)
(* C7: after the event sequence is exhausted the executor pushes           *)
(* __stream_end__ once: with status interrupted when the status it read    *)
(* is interrupted, and then it writes no status; otherwise with status     *)
(* success, and then it sets the thread idle.                              *)
(***************************************************************************)
C7_FinalizeByStatusRead ==
  [][\A c \in Calls :
       /\ (epc[c] = "fin_push" /\ epc'[c] # "fin_push")
          => /\ threads' = threads
             /\ IF fstatus[c] = "interrupted"
                  THEN /\ pushLog'[c] = Append(pushLog[c], EndMsg("interrupted"))
                       /\ RunEnded(c)'
                  ELSE /\ pushLog'[c] = Append(pushLog[c], EndMsg("success"))
                       /\ epc'[c] = "fin_update"
       /\ (epc[c] = "fin_update" /\ epc'[c] # "fin_update")
          => /\ threads'[req[c].thread].status = "idle"
             /\ pushLog'[c] = pushLog[c]
             /\ RunEnded(c)'
       /\ (RunEnded(c)' /\ exc'[c] = NoExc)
          => /\ Len(OfKind(pushLog'[c], "__stream_end__")) = 1
             /\ Last(pushLog'[c]).event = "__stream_end__"]_vars

\* One run ended interrupted and left the thread interrupted; the next run,
\* started on that interrupted thread, ended with success and set it idle.
C7_Witness ==
  \E c, d \in Calls :
    /\ c # d
    /\ RunEnded(d)
    /\ OfKind(pushLog[d], "__stream_end__") = <<EndMsg("interrupted")>>
    /\ pre[c].status = "interrupted"
    /\ RunEnded(c)
    /\ OfKind(pushLog[c], "__stream_end__") = <<EndMsg("success")>>
    /\ threads[req[c].thread].status = "idle"

ResumesInterrupt(c) ==
  /\ req[c].assistant_id = "demo"
  /\ req[c].kind = "command"
  /\ pre[c].status = "interrupted"
  /\ pre[c].alone
  /\ pre[c].intr
  /\ "error" \notin pre[c].marks

C9_ResumeCompletes ==
  [][\A c \in Calls :
       /\ ( /\ rpc[c] = "lock_update"
            /\ rpc'[c] # "lock_update"
            /\ threads[req[c].thread].status = "interrupted" )
          => rpc'[c] = "resolve"
       /\ (EndsRun(c) /\ ResumesInterrupt(c))
          => /\ Last(pushLog'[c]) = EndMsg("success")
             /\ threads'[req[c].thread].status = "idle"
             /\ raised'[c] = NoExc]_vars

\* The first run ended interrupted; the second resumed it and ended with
\* success, the thread idle.
C9_Witness ==
  \E a, b \in Calls :
    /\ a # b
    /\ RunEnded(a)
    /\ Last(pushLog[a]) = EndMsg("interrupted")
    /\ ResumesInterrupt(b)
    /\ RunEnded(b)
    /\ Last(pushLog[b]) = EndMsg("success")
    /\ Len(pushLog[b]) = 5
    /\ threads[req[b].thread].status = "idle"

(***************************************************************************)
(* C10: every admitted run eventually ends, with a terminal event pushed;  *)
(* and whenever every call that took the lock on a thread was admitted     *)
(* and its run has ended, the thread is idle, interrupted or error.        *)
(***************************************************************************)
HasTerminal(c) ==
  \E i \in 1..Len(pushLog[c]) : pushLog[c][i].event \in TerminalKinds

\* no call holds the thread: none is between the lock and its run's end,
\* and none failed after taking the lock
Released(t) ==
  \A c \in CallsOn(t) :
    /\ rpc[c] # "resolve"
    /\ rerr[c] # "GraphNotFoundError"
    /\ rpc[c] = "returned" => RunEnded(c)

Backends == {"memory", "redis"}

\* count of the consumer's XREAD
XReadCount == 10

\* kinds of the messages the producer pushes; the data of a "messages"
\* event is the tuple (chunk, metadata) the graph streams, the data of the
\* other events is a dict
PushKinds == {"values", "messages"} \cup TerminalKinds

\* the n-th EventMessage of the producer: id and timestamp are the defaults
\* made when the message is constructed
ProducerMsg(k, n) ==
  [id |-> n, event |-> k,
   data |-> [type |-> IF k = "messages" THEN "tuple" ELSE "dict", value |-> n],
   timestamp |-> n]

\* the message cancel() pushes
CancelMsg(b) ==
  [id |-> 0, event |-> "__stream_cancel__",
   data |-> [type |-> "dict",
             value |-> IF b = "memory" THEN "message: Queue cancelled"
                                       ELSE "reason: Queue cancelled"],
   timestamp |-> 0]

\* JSON form of the data: a dict is an object, a tuple or a list an array
DumpData(d) ==
  [json |-> IF d.type = "dict" THEN "object" ELSE "array", value |-> d.value]

\* the data parsed from JSON: an object is a dict, an array a list
LoadData(j) ==
  [type |-> IF j.json = "object" THEN "dict" ELSE "list", value |-> j.value]

\* model_dump_json / model_validate_json of an EventMessage
ToJson(m) ==
  <<"id", m.id, "event", m.event, "data", DumpData(m.data),
    "timestamp", m.timestamp>>

FromJson(j) ==
  [id |-> j[2], event |-> j[4], data |-> LoadData(j[6]), timestamp |-> j[8]]

\* a Redis stream entry: ids grow with every XADD
Entry(id, m) == [id |-> id, fields |-> [data |-> ToJson(m)]]

\* what push() appends, q the messages pushed before
Stored(b, q, m) == IF b = "memory" THEN m ELSE Entry(Len(q) + 1, m)

\* the message a reader of the queue gets for the pushed message m
Read(b, m) == IF b = "memory" THEN m ELSE FromJson(ToJson(m))

ReadAll(b, q) == [i \in 1..Len(q) |-> Read(b, q[i])]

\* XREAD: up to cnt entries with an id greater than last
XRead(q, last, cnt) ==
  LET new == SelectSeq(q, LAMBDA e : e.id > last)
  IN SubSeq(new, 1, IF Len(new) < cnt THEN Len(new) ELSE cnt)

IsTerminalNotCancel(e) == e \in {"__stream_end__", "__stream_error__"}

\* the consumer's check after a yield
IsTerminal(e) == e \in TerminalKinds

\* the memory queue's _lock is held by the consumer across its yield
LockHeld == backend = "memory" /\ cpc \in {"locked", "yielded"}

\* the consumer is inside on_data_receive
Iterating == {"check", "locked", "yielded", "sleep", "get_key", "xread", "deliver"}

InitQ ==
  /\ threads = << >>
  /\ TMInit
  /\ RunInit
  /\ \E b \in Backends : QInit(b)
  /\ SInit("memory")
  /\ GInit
  /\ PInit

\* _ensure_initialized of the Redis queue
Ensured == initialized' = (backend = "redis")

QAppend(m) ==
  /\ Ensured
  /\ stream' = Append(stream, Stored(backend, pushed, m))
  /\ pushed' = Append(pushed, m)
  /\ got' = NoGot

\* the producer's push(): append under the lock (memory), XADD (Redis)
QPush(k) ==
  /\ npush < MaxPush
  /\ ~LockHeld
  /\ npush' = npush + 1
  /\ QAppend(ProducerMsg(k, npush + 1))
  /\ UNCHANGED <<backend, cancel_event, cancel_key, kpc, cpc, index, last_id,
                 batch, message, yielded, cancelAt>>
  /\ UNCHANGED <<kagain, cleaned, xerr>>
  /\ UNCHANGED <<threads, tmVars, runVars>>
  /\ UNCHANGED sVars
  /\ UNCHANGED gVars
  /\ UNCHANGED pVars

\* A cancel() that goes on whatever the flag says.
CancelProceedsAlways(flag) == TRUE

\* cancel() goes on when the flag is not set yet
CancelProceeds(flag) == ~flag

\* cancel(): the flag
QCancelSet ==
  /\ kpc = "none"
  /\ cancelAt' = cpc
  /\ IF CancelProceeds(cancel_event)
       THEN /\ cancel_event' = TRUE
            /\ kpc' = IF backend = "memory" THEN "push" ELSE "set_key"
       ELSE /\ kpc' = "done"
            /\ cancel_event' = cancel_event
  /\ UNCHANGED <<backend, stream, cancel_key, npush, cpc, index, last_id,
                 batch, message, pushed, yielded>>
  /\ UNCHANGED qcVars
  /\ UNCHANGED <<threads, tmVars, runVars>>
  /\ UNCHANGED sVars
  /\ UNCHANGED gVars
  /\ UNCHANGED pVars

\* cancel() of the Redis queue: SET of the cancel key
QCancelSetKey ==
  /\ kpc = "set_key"
  /\ cancel_key' = TRUE
  /\ kpc' = "push"
  /\ UNCHANGED <<backend, stream, cancel_event, npush, cpc, index, last_id,
                 batch, message, pushed, yielded, cancelAt>>
  /\ Ensured
  /\ UNCHANGED <<got, kagain, cleaned, xerr>>
  /\ UNCHANGED <<threads, tmVars, runVars>>
  /\ UNCHANGED sVars
  /\ UNCHANGED gVars
  /\ UNCHANGED pVars

\* cancel(): push of the __stream_cancel__ message
QCancelPush ==
  /\ kpc = "push"
  /\ ~LockHeld
  /\ QAppend(CancelMsg(backend))
  /\ kpc' = "done"
  /\ UNCHANGED <<backend, cancel_event, cancel_key, npush, cpc, index, last_id,
                 batch, message, yielded, cancelAt>>
  /\ UNCHANGED <<kagain, cleaned, xerr>>
  /\ UNCHANGED <<threads, tmVars, runVars>>
  /\ UNCHANGED sVars
  /\ UNCHANGED gVars
  /\ UNCHANGED pVars

\* on_data_receive() is called and iterated
QStart ==
  /\ cpc = "none"
  /\ cpc' = "check"
  /\ index' = 0
  /\ last_id' = 0
  /\ UNCHANGED <<backend, stream, cancel_event, cancel_key, npush, kpc, batch,
                 message, pushed, yielded, cancelAt>>
  /\ Ensured
  /\ UNCHANGED <<got, kagain, cleaned, xerr>>
  /\ UNCHANGED <<threads, tmVars, runVars>>
  /\ UNCHANGED sVars
  /\ UNCHANGED gVars
  /\ UNCHANGED pVars

\* memory: while not cancel_event.is_set(), then the lock is taken
MemCheck ==
  /\ backend = "memory"
  /\ cpc = "check"
  /\ cpc' = IF cancel_event THEN "done" ELSE "locked"
  /\ UNCHANGED <<backend, stream, cancel_event, cancel_key, npush, kpc, index,
                 last_id, batch, message, pushed, yielded, cancelAt>>
  /\ UNCHANGED qcVars
  /\ UNCHANGED <<threads, tmVars, runVars>>
  /\ UNCHANGED sVars
  /\ UNCHANGED gVars
  /\ UNCHANGED pVars

\* memory: the next message is yielded, the lock held
MemYield ==
  /\ backend = "memory"
  /\ cpc = "locked"
  /\ index < Len(stream)
  /\ message' = stream[index + 1]
  /\ index' = index + 1
  /\ yielded' = Append(yielded, stream[index + 1])
  /\ cpc' = "yielded"
  /\ UNCHANGED <<backend, stream, cancel_event, cancel_key, npush, kpc,
                 last_id, batch, pushed, cancelAt>>
  /\ UNCHANGED qcVars
  /\ UNCHANGED <<threads, tmVars, runVars>>
  /\ UNCHANGED sVars
  /\ UNCHANGED gVars
  /\ UNCHANGED pVars

\* memory: resumed after the yield, return on a terminal event
MemResume ==
  /\ backend = "memory"
  /\ cpc = "yielded"
  /\ cpc' = IF IsTerminal(message.event) THEN "done" ELSE "locked"
  /\ UNCHANGED <<backend, stream, cancel_event, cancel_key, npush, kpc, index,
                 last_id, batch, message, pushed, yielded, cancelAt>>
  /\ UNCHANGED qcVars
  /\ UNCHANGED <<threads, tmVars, runVars>>
  /\ UNCHANGED sVars
  /\ UNCHANGED gVars
  /\ UNCHANGED pVars

\* memory: no new message, the lock is released and the consumer sleeps
MemRelease ==
  /\ backend = "memory"
  /\ cpc = "locked"
  /\ index >= Len(stream)
  /\ cpc' = "sleep"
  /\ UNCHANGED <<backend, stream, cancel_event, cancel_key, npush, kpc, index,
                 last_id, batch, message, pushed, yielded, cancelAt>>
  /\ UNCHANGED qcVars
  /\ UNCHANGED <<threads, tmVars, runVars>>
  /\ UNCHANGED sVars
  /\ UNCHANGED gVars
  /\ UNCHANGED pVars

\* memory: asyncio.sleep(0.01) is over
MemWake ==
  /\ backend = "memory"
  /\ cpc = "sleep"
  /\ cpc' = "check"
  /\ UNCHANGED <<backend, stream, cancel_event, cancel_key, npush, kpc, index,
                 last_id, batch, message, pushed, yielded, cancelAt>>
  /\ UNCHANGED qcVars
  /\ UNCHANGED <<threads, tmVars, runVars>>
  /\ UNCHANGED sVars
  /\ UNCHANGED gVars
  /\ UNCHANGED pVars

\* Redis: while not cancel_event.is_set()
RedisCheck ==
  /\ backend = "redis"
  /\ cpc = "check"
  /\ cpc' = IF cancel_event THEN "done" ELSE "get_key"
  /\ UNCHANGED <<backend, stream, cancel_event, cancel_key, npush, kpc, index,
                 last_id, batch, message, pushed, yielded, cancelAt>>
  /\ UNCHANGED qcVars
  /\ UNCHANGED <<threads, tmVars, runVars>>
  /\ UNCHANGED sVars
  /\ UNCHANGED gVars
  /\ UNCHANGED pVars

\* Redis: GET of the cancel key, break when it is set
RedisGetKey ==
  /\ backend = "redis"
  /\ cpc = "get_key"
  /\ cpc' = IF cancel_key THEN "done" ELSE "xread"
  /\ UNCHANGED <<backend, stream, cancel_event, cancel_key, npush, kpc, index,
                 last_id, batch, message, pushed, yielded, cancelAt>>
  /\ UNCHANGED qcVars
  /\ UNCHANGED <<threads, tmVars, runVars>>
  /\ UNCHANGED sVars
  /\ UNCHANGED gVars
  /\ UNCHANGED pVars

\* Redis: XREAD returns the new entries, or nothing when the block is over
RedisXRead ==
  /\ backend = "redis"
  /\ cpc = "xread"
  /\ batch' = XRead(stream, last_id, XReadCount)
  /\ cpc' = IF batch' = << >> THEN "check" ELSE "deliver"
  /\ UNCHANGED <<backend, stream, cancel_event, cancel_key, npush, kpc, index,
                 last_id, message, pushed, yielded, cancelAt>>
  /\ UNCHANGED qcVars
  /\ UNCHANGED <<threads, tmVars, runVars>>
  /\ UNCHANGED sVars
  /\ UNCHANGED gVars
  /\ UNCHANGED pVars

\* Redis: the next entry of the batch is decoded and yielded
RedisYield ==
  /\ backend = "redis"
  /\ cpc = "deliver"
  /\ message' = FromJson(Head(batch).fields.data)
  /\ yielded' = Append(yielded, message')
  /\ cpc' = "yielded"
  /\ UNCHANGED <<backend, stream, cancel_event, cancel_key, npush, kpc, index,
                 last_id, batch, pushed, cancelAt>>
  /\ UNCHANGED qcVars
  /\ UNCHANGED <<threads, tmVars, runVars>>
  /\ UNCHANGED sVars
  /\ UNCHANGED gVars
  /\ UNCHANGED pVars

\* Redis: resumed after the yield: last_id, return on a terminal event
RedisResume ==
  /\ backend = "redis"
  /\ cpc = "yielded"
  /\ last_id' = Head(batch).id
  /\ IF IsTerminal(message.event)
       THEN /\ cpc' = "done"
            /\ batch' = batch
       ELSE /\ batch' = Tail(batch)
            /\ cpc' = IF Tail(batch) = << >> THEN "check" ELSE "deliver"
  /\ UNCHANGED <<backend, stream, cancel_event, cancel_key, npush, kpc, index,
                 message, pushed, yielded, cancelAt>>
  /\ UNCHANGED qcVars
  /\ UNCHANGED <<threads, tmVars, runVars>>
  /\ UNCHANGED sVars
  /\ UNCHANGED gVars
  /\ UNCHANGED pVars

\* one step of the consumer, once on_data_receive is being iterated
ConsumerStep ==
  \/ MemCheck
  \/ MemYield
  \/ MemResume
  \/ MemRelease
  \/ MemWake
  \/ RedisCheck
  \/ RedisGetKey
  \/ RedisXRead
  \/ RedisYield
  \/ RedisResume

NextQ ==
  \/ \E k \in PushKinds : QPush(k)
  \/ QCancelSet
  \/ QCancelSetKey
  \/ QCancelPush
  \/ QStart
  \/ MemCheck
  \/ MemYield
  \/ MemResume
  \/ MemRelease
  \/ MemWake
  \/ RedisCheck
  \/ RedisGetKey
  \/ RedisXRead
  \/ RedisYield
  \/ RedisResume

SpecQ == InitQ /\ [][NextQ]_vars

\* The consumer is iterated to its end: whoever called on_data_receive
\* keeps asking for the next message.
FairSpecQ == SpecQ /\ WF_vars(ConsumerStep)

(***************************************************************************)
(* The queue with get_all(), repeated cancel() and cleanup()               *)
(***************************************************************************)
\* XRANGE of the whole stream: the entries, oldest first
XRange(q) == q

\* A listing that returns the newest message first.
GetAllListNewestFirst(b, q) ==
  [i \in 1..Len(q) |->
     IF b = "memory" THEN q[Len(q) + 1 - i]
                     ELSE FromJson(q[Len(q) + 1 - i].fields.data)]

\* what get_all() returns: a copy of _messages (memory), the decoded
\* entries of XRANGE (Redis)
GetAllList(b, q) ==
  IF b = "memory"
    THEN q
    ELSE [i \in 1..Len(XRange(q)) |-> FromJson(XRange(q)[i].fields.data)]

\* get_all()
QGetAll ==
  /\ ~LockHeld
  /\ Ensured
  /\ got' = [called |-> TRUE, list |-> GetAllList(backend, stream)]
  /\ UNCHANGED <<backend, stream, cancel_event, cancel_key, npush, kpc, cpc,
                 index, last_id, batch, message, pushed, yielded, cancelAt>>
  /\ UNCHANGED <<kagain, cleaned, xerr>>
  /\ UNCHANGED <<threads, tmVars, runVars>>
  /\ UNCHANGED sVars
  /\ UNCHANGED gVars
  /\ UNCHANGED pVars

\* cancel() is called once more, the first call made or still in progress
QCancelAgain ==
  /\ kpc # "none"
  /\ kagain' = TRUE
  /\ IF CancelProceeds(cancel_event)
       THEN /\ ~LockHeld
            /\ cancel_event' = TRUE
            /\ cancel_key' = (backend = "redis")
            /\ QAppend(CancelMsg(backend))
       ELSE UNCHANGED <<cancel_event, cancel_key, stream, pushed, got,
                        initialized>>
  /\ UNCHANGED <<backend, npush, kpc, cpc, index, last_id, batch, message,
                 yielded, cancelAt, cleaned, xerr>>
  /\ UNCHANGED <<threads, tmVars, runVars>>
  /\ UNCHANGED sVars
  /\ UNCHANGED gVars
  /\ UNCHANGED pVars

\* A cleanup() that lets the exception of its Redis commands out.
CleanupOutcomePropagates(e) == e

\* what cleanup() raises when its Redis commands raised e: the exception
\* is logged
CleanupOutcome(e) == "none"

\* the Redis client has been closed by an earlier cleanup()
Closed == backend = "redis" /\ cleaned # "none"

\* cleanup(): memory clears _messages under the lock and sets the flag;
\* Redis deletes the stream and the cancel key when _initialized, and closes
\* the client; the DEL of a closed client reconnects or raises (e)
QCleanup(e) ==
  /\ ~LockHeld
  /\ e # "none" => Closed /\ initialized
  /\ cleaned' = IF cleaned = "none" THEN "once" ELSE "again"
  /\ xerr' = CleanupOutcome(e)
  /\ got' = NoGot
  /\ IF backend = "memory"
       THEN /\ stream' = << >>
            /\ cancel_event' = TRUE
            /\ cancel_key' = cancel_key
       ELSE /\ cancel_event' = cancel_event
            /\ IF initialized /\ e = "none"
                 THEN /\ stream' = << >>
                      /\ cancel_key' = FALSE
                 ELSE UNCHANGED <<stream, cancel_key>>
  /\ UNCHANGED <<backend, npush, kpc, cpc, index, last_id, batch, message,
                 pushed, yielded, cancelAt, initialized, kagain>>
  /\ UNCHANGED <<threads, tmVars, runVars>>
  /\ UNCHANGED sVars
  /\ UNCHANGED gVars
  /\ UNCHANGED pVars

\* the queue's callers other than the consumer
NextQC ==
  \/ \E k \in PushKinds : QPush(k)
  \/ QCancelSet
  \/ QCancelSetKey
  \/ QCancelPush
  \/ QGetAll
  \/ QCancelAgain
  \/ \E e \in {"none", "RedisError"} : QCleanup(e)

SpecQC == InitQ /\ [][NextQC]_vars

\* position of the first terminal message of q, 0 when there is none
FirstTerminal(q) ==
  LET S == {i \in 1..Len(q) : q[i].event \in TerminalKinds}
  IN IF S = {} THEN 0 ELSE CHOOSE i \in S : \A j \in S : i <= j

ThroughFirstTerminal(q) == SubSeq(q, 1, FirstTerminal(q))

IsPrefix(a, b) == Len(a) <= Len(b) /\ a = SubSeq(b, 1, Len(a))

OnlyCancelTerminal ==
  \A i \in 1..Len(pushed) :
    pushed[i].event \in TerminalKinds => pushed[i] = CancelMsg(backend)

C6_CancelledConsumerYieldsCancel ==
  (cpc = "done" /\ cancelAt \in Iterating /\ OnlyCancelTerminal)
    => /\ yielded # << >>
       /\ yielded[Len(yielded)] = CancelMsg(backend)

(***************************************************************************)
(* Thread managers with full records: MemoryThreadsManager and             *)
(* PostgresThreadsManager                                                  *)
(***************************************************************************)
SBackends == {"memory", "pg"}

\* readings of datetime.now() in a behaviour of SpecS
MaxClock == 2

\* the thread ids the clients of SpecS create
SIds == {"t1"}

\* a thread id no client creates
AbsentIds == {"t2"}

\* metadata maps the clients create with

\* metadata maps the clients update with
UpdateMeta == {[key \in {"a"} |-> 2], [key \in {"b"} |-> 2]}

IfExistsArgs == {"raise", "do_nothing", "omitted"}

CreateOps ==
  {[op |-> "create", id |-> t, if_exists |-> e, metadata |-> m,
    has_meta |-> TRUE, status |-> "none"] :
     t \in SIds, e \in IfExistsArgs, m \in CreateMeta}

\* the updates dict: a status, a metadata map, or both
UpdateOps ==
  {[op |-> "update", id |-> t, if_exists |-> "none", metadata |-> EmptyMeta,
    has_meta |-> FALSE, status |-> st] : t \in SIds, st \in Statuses}
  \cup
  {[op |-> "update", id |-> t, if_exists |-> "none", metadata |-> m,
    has_meta |-> TRUE, status |-> "none"] : t \in SIds, m \in UpdateMeta}
  \cup
  {[op |-> "update", id |-> t, if_exists |-> "none",
    metadata |-> [key \in {"a"} |-> 2], has_meta |-> TRUE, status |-> "error"] :
     t \in SIds}

IdOps(names) ==
  {[op |-> o, id |-> t, if_exists |-> "none", metadata |-> EmptyMeta,
    has_meta |-> FALSE, status |-> "none"] : o \in names, t \in SIds}

\* calls with an id that is not stored
AbsentOps(names) ==
  {[op |-> o, id |-> t, if_exists |-> "none", metadata |-> EmptyMeta,
    has_meta |-> FALSE, status |-> IF o = "update" THEN "busy" ELSE "none"] :
     o \in names, t \in AbsentIds}

\* acquire_lock is a method of the Postgres manager only
SOps(b) ==
  CreateOps \cup UpdateOps \cup IdOps({"get", "delete"})
  \cup AbsentOps({"get", "update", "delete"})
  \cup (IF b = "pg" THEN IdOps({"acquire_lock"}) \cup AbsentOps({"acquire_lock"})
                    ELSE {})

\* if_exists None (or anything but do_nothing) is 'raise'
DoNothing(o) == o.if_exists = "do_nothing"

NewRow(t, m, now) ==
  [thread_id |-> t, created_at |-> now, updated_at |-> now, metadata |-> m,
   status |-> "idle"]

Put(st, row) ==
  [t \in DOMAIN st \cup {row.thread_id} |->
     IF t = row.thread_id THEN row ELSE st[t]]

Remove(st, t) == [u \in DOMAIN st \ {t} |-> st[u]]

InsertOverwrites(st, row) == Put(st, row)

\* INSERT ... ON CONFLICT DO NOTHING / the existing-thread branch of create
InsertDoNothing(st, row) == IF row.thread_id \in DOMAIN st THEN st ELSE Put(st, row)

\* dict.update
Merge(old, new) ==
  [key \in DOMAIN old \cup DOMAIN new |->
     IF key \in DOMAIN new THEN new[key] ELSE old[key]]

\* MemoryThreadsManager.update on the stored thread
MemApplyUpdate(row, o, now) ==
  [row EXCEPT !.status = IF o.status # "none" THEN o.status ELSE @,
              !.metadata = IF o.has_meta THEN Merge(@, o.metadata) ELSE @,
              !.updated_at = now]

\* PostgresThreadsManager.update: UPDATE ... SET of the supplied values
PgApplyUpdate(row, o, now) ==
  [row EXCEPT !.status = IF o.status # "none" THEN o.status ELSE @,
              !.metadata = IF o.has_meta THEN o.metadata ELSE @,
              !.updated_at = now]

ThreadResult(row) == [kind |-> "thread", rec |-> row]

NoneResult == [kind |-> "ok"]

BoolResult(b) == [kind |-> "bool", val |-> b]

Raised(type) == [kind |-> "error", type |-> type]

NotFoundTypeKeyError == "KeyError"

\* the error of a lookup that finds no thread
NotFoundType == "ResourceNotFoundError"

\* another transaction holds an uncommitted insert of the id
InsertPending(k, t) == \E j \in SClients \ {k} : sins[j].thread_id = t

InitS ==
  /\ threads = << >>
  /\ TMInit
  /\ RunInit
  /\ QInit("memory")
  /\ \E b \in SBackends : SInit(b)
  /\ GInit
  /\ PInit

\* the client's call returns or raises
SReturn(k, r) ==
  /\ spc' = [spc EXCEPT ![k] = "idle"]
  /\ sret' = [sret EXCEPT ![k] = r]
  /\ sins' = [sins EXCEPT ![k] = NoRow]
  /\ snow' = [snow EXCEPT ![k] = 0]

SFrame == UNCHANGED <<threads, tmVars, runVars, qVars, sbackend, sover, gVars,
                      pVars>>

\* client k's update, delete or acquire_lock is applied: the calls in
\* progress are marked when it changes the store
SDisturb(k) ==
  sdisturbed' =
    [j \in SClients |->
       sdisturbed[j] \/ (j # k /\ spc[j] # "idle" /\ store' # store)]

\* a client calls the manager; the calls are coroutines of one event loop.
\* What is remembered of a finished call is dropped when a later call is
\* made: results are compared among calls that ran concurrently.  Of the
\* idle clients the one with the least number makes the next call.
SCall(k, o) ==
  /\ spc[k] = "idle"
  /\ \A j \in SClients : j < k => spc[j] # "idle"
  /\ o \in SOps(sbackend)
  /\ spc' = [spc EXCEPT ![k] = "called"]
  /\ sop' = [j \in SClients |->
               IF j = k THEN o ELSE IF spc[j] = "idle" THEN NoOp ELSE sop[j]]
  /\ sret' = [j \in SClients |->
                IF j = k \/ spc[j] = "idle" THEN NoReturn ELSE sret[j]]
  /\ sover' = [j \in SClients |->
                 IF j = k THEN {i \in SClients \ {k} : spc[i] # "idle"}
                 ELSE IF spc[j] = "idle" THEN {} ELSE sover[j]]
  /\ sdisturbed' = [j \in SClients |->
                      IF j = k \/ spc[j] = "idle" THEN FALSE ELSE sdisturbed[j]]
  /\ UNCHANGED <<store, clock, snow, sins, sbackend>>
  /\ UNCHANGED <<threads, tmVars, runVars, qVars, gVars, pVars>>

\* MemoryThreadsManager.create
MemCreate(k) ==
  LET o == sop[k]
      t == o.id
      row == NewRow(t, o.metadata, clock + 1)
  IN /\ sbackend = "memory"
     /\ spc[k] = "called"
     /\ o.op = "create"
     /\ IF t \in DOMAIN store
          THEN /\ clock' = clock
               /\ IF DoNothing(o)
                    THEN /\ store' = InsertDoNothing(store, row)
                         /\ SReturn(k, ThreadResult(store'[t]))
                    ELSE /\ store' = store
                         /\ SReturn(k, Raised("ResourceExistsError"))
          ELSE /\ clock < MaxClock
               /\ clock' = clock + 1
               /\ store' = Put(store, row)
               /\ SReturn(k, ThreadResult(row))
     /\ UNCHANGED sop
     /\ SFrame
     /\ UNCHANGED sdisturbed

\* MemoryThreadsManager.get
MemGet(k) ==
  LET t == sop[k].id
  IN /\ sbackend = "memory"
     /\ spc[k] = "called"
     /\ sop[k].op = "get"
     /\ IF t \in DOMAIN store
          THEN SReturn(k, ThreadResult(store[t]))
          ELSE SReturn(k, Raised(NotFoundType))
     /\ UNCHANGED <<store, clock, sop>>
     /\ SFrame
     /\ UNCHANGED sdisturbed

\* MemoryThreadsManager.update
MemUpdate(k) ==
  LET o == sop[k]
      t == o.id
  IN /\ sbackend = "memory"
     /\ spc[k] = "called"
     /\ o.op = "update"
     /\ IF t \in DOMAIN store
          THEN /\ clock < MaxClock
               /\ clock' = clock + 1
               /\ store' = [store EXCEPT ![t] = MemApplyUpdate(@, o, clock + 1)]
               /\ SReturn(k, NoneResult)
          ELSE /\ UNCHANGED <<store, clock>>
               /\ SReturn(k, Raised(NotFoundType))
     /\ UNCHANGED sop
     /\ SFrame
     /\ SDisturb(k)

\* MemoryThreadsManager.delete
MemDelete(k) ==
  LET t == sop[k].id
  IN /\ sbackend = "memory"
     /\ spc[k] = "called"
     /\ sop[k].op = "delete"
     /\ IF t \in DOMAIN store
          THEN /\ store' = Remove(store, t)
               /\ SReturn(k, NoneResult)
          ELSE /\ store' = store
               /\ SReturn(k, Raised(NotFoundType))
     /\ UNCHANGED <<clock, sop>>
     /\ SFrame
     /\ SDisturb(k)

\* PostgresThreadsManager.create: now is read, the transaction begins
PgCreateBegin(k) ==
  /\ sbackend = "pg"
  /\ spc[k] = "called"
  /\ sop[k].op = "create"
  /\ clock < MaxClock
  /\ clock' = clock + 1
  /\ snow' = [snow EXCEPT ![k] = clock + 1]
  /\ spc' = [spc EXCEPT ![k] = IF DoNothing(sop[k]) THEN "insert" ELSE "select"]
  /\ UNCHANGED <<store, sop, sins, sret>>
  /\ SFrame
  /\ UNCHANGED sdisturbed

\* create, do_nothing: INSERT ... ON CONFLICT DO NOTHING; it waits for a
\* transaction that has inserted the same id and not committed
PgInsertOnConflict(k) ==
  LET o == sop[k]
      row == NewRow(o.id, o.metadata, snow[k])
  IN /\ sbackend = "pg"
     /\ spc[k] = "insert"
     /\ ~InsertPending(k, o.id)
     /\ sins' = [sins EXCEPT ![k] =
                   IF InsertDoNothing(store, row) = store THEN NoRow ELSE row]
     /\ spc' = [spc EXCEPT ![k] = "select_commit"]
     /\ UNCHANGED <<store, clock, sop, snow, sret>>
     /\ SFrame
     /\ UNCHANGED sdisturbed

\* create, do_nothing: SELECT of the row (scalar_one), commit, return
PgCreateSelect(k) ==
  LET t == sop[k].id
      st == IF sins[k] = NoRow THEN store ELSE Put(store, sins[k])
  IN /\ sbackend = "pg"
     /\ spc[k] = "select_commit"
     /\ IF t \in DOMAIN st
          THEN /\ store' = st
               /\ SReturn(k, ThreadResult(st[t]))
          ELSE /\ store' = store
               /\ SReturn(k, Raised("NoResultFound"))
     /\ UNCHANGED <<clock, sop>>
     /\ SFrame
     /\ UNCHANGED sdisturbed

\* create, raise: SELECT of the row, ResourceExistsError when it is there
PgRaiseSelect(k) ==
  /\ sbackend = "pg"
  /\ spc[k] = "select"
  /\ IF sop[k].id \in DOMAIN store
       THEN SReturn(k, Raised("ResourceExistsError"))
       ELSE /\ spc' = [spc EXCEPT ![k] = "add_commit"]
            /\ UNCHANGED <<sret, sins, snow>>
  /\ UNCHANGED <<store, clock, sop>>
  /\ SFrame
  /\ UNCHANGED sdisturbed

\* create, raise: session.add, the INSERT is flushed at the commit; a row
\* with the id committed meanwhile violates the primary key
PgRaiseCommit(k) ==
  LET o == sop[k]
      row == NewRow(o.id, o.metadata, snow[k])
  IN /\ sbackend = "pg"
     /\ spc[k] = "add_commit"
     /\ ~InsertPending(k, o.id)
     /\ IF o.id \in DOMAIN store
          THEN /\ store' = store
               /\ SReturn(k, Raised("IntegrityError"))
          ELSE /\ store' = Put(store, row)
               /\ SReturn(k, ThreadResult(row))
     /\ UNCHANGED <<clock, sop>>
     /\ SFrame
     /\ UNCHANGED sdisturbed

\* PostgresThreadsManager.get
PgGet(k) ==
  LET t == sop[k].id
  IN /\ sbackend = "pg"
     /\ spc[k] = "called"
     /\ sop[k].op = "get"
     /\ IF t \in DOMAIN store
          THEN SReturn(k, ThreadResult(store[t]))
          ELSE SReturn(k, Raised(NotFoundType))
     /\ UNCHANGED <<store, clock, sop>>
     /\ SFrame
     /\ UNCHANGED sdisturbed

\* update, delete, acquire_lock: SELECT of the row, ResourceNotFoundError
\* when it is not there; update and acquire_lock then read now
PgSelect(k) ==
  LET o == sop[k]
  IN /\ sbackend = "pg"
     /\ spc[k] = "called"
     /\ o.op \in {"update", "delete", "acquire_lock"}
     /\ IF o.id \in DOMAIN store
          THEN /\ spc' = [spc EXCEPT ![k] = "write"]
               /\ IF o.op = "delete"
                    THEN UNCHANGED <<clock, snow>>
                    ELSE /\ clock < MaxClock
                         /\ clock' = clock + 1
                         /\ snow' = [snow EXCEPT ![k] = clock + 1]
               /\ UNCHANGED <<sret, sins>>
          ELSE /\ SReturn(k, Raised(NotFoundType))
               /\ UNCHANGED clock
     /\ UNCHANGED <<store, sop>>
     /\ SFrame
     /\ UNCHANGED sdisturbed

\* update: UPDATE ... WHERE thread_id = id, commit
PgUpdate(k) ==
  LET o == sop[k]
      t == o.id
  IN /\ sbackend = "pg"
     /\ spc[k] = "write"
     /\ o.op = "update"
     /\ store' = IF t \in DOMAIN store
                   THEN [store EXCEPT ![t] = PgApplyUpdate(@, o, snow[k])]
                   ELSE store
     /\ SReturn(k, NoneResult)
     /\ UNCHANGED <<clock, sop>>
     /\ SFrame
     /\ SDisturb(k)

\* delete: DELETE ... WHERE thread_id = id, commit
PgDelete(k) ==
  LET t == sop[k].id
  IN /\ sbackend = "pg"
     /\ spc[k] = "write"
     /\ sop[k].op = "delete"
     /\ store' = IF t \in DOMAIN store THEN Remove(store, t) ELSE store
     /\ SReturn(k, NoneResult)
     /\ UNCHANGED <<clock, sop>>
     /\ SFrame
     /\ SDisturb(k)

\* acquire_lock: UPDATE ... WHERE thread_id = id AND status != 'busy'
PgAcquire(k) ==
  LET t == sop[k].id
      hit == t \in DOMAIN store /\ LockCondition(store[t].status, store[t].status)
  IN /\ sbackend = "pg"
     /\ spc[k] = "write"
     /\ sop[k].op = "acquire_lock"
     /\ store' = IF hit
                   THEN [store EXCEPT ![t].status = "busy",
                                      ![t].updated_at = snow[k]]
                   ELSE store
     /\ SReturn(k, BoolResult(hit))
     /\ UNCHANGED <<clock, sop>>
     /\ SFrame
     /\ SDisturb(k)

NextS ==
  \/ \E k \in SClients, o \in SOps(sbackend) : SCall(k, o)
  \/ \E k \in SClients : MemCreate(k)
  \/ \E k \in SClients : MemGet(k)
  \/ \E k \in SClients : MemUpdate(k)
  \/ \E k \in SClients : MemDelete(k)
  \/ \E k \in SClients : PgCreateBegin(k)
  \/ \E k \in SClients : PgInsertOnConflict(k)
  \/ \E k \in SClients : PgCreateSelect(k)
  \/ \E k \in SClients : PgRaiseSelect(k)
  \/ \E k \in SClients : PgRaiseCommit(k)
  \/ \E k \in SClients : PgGet(k)
  \/ \E k \in SClients : PgSelect(k)
  \/ \E k \in SClients : PgUpdate(k)
  \/ \E k \in SClients : PgDelete(k)
  \/ \E k \in SClients : PgAcquire(k)

SpecS == InitS /\ [][NextS]_vars

\* the two calls ran concurrently
Overlapped(k1, k2) == k1 \in sover[k2] \/ k2 \in sover[k1]

\* the client's create on id t has returned or raised
DoneCreate(k, t) ==
  /\ spc[k] = "idle"
  /\ sop[k].op = "create"
  /\ sop[k].id = t
  /\ sret[k] # NoReturn

\* the step in which the client's call returns or raises
Returns(k) == spc[k] # "idle" /\ spc'[k] = "idle"

(***************************************************************************)
(* C11: two concurrent create(id, if_exists='do_nothing') calls with       *)
(* different metadata, no update or delete changing the store meanwhile,   *)
(* both return a thread, the thread is stored once, and both returned      *)
(* records have the stored metadata and created_at.                        *)
(***************************************************************************)
C11_ConcurrentCreateSameRecord ==
  \A k1, k2 \in SClients, t \in SIds :
    ( /\ k1 # k2
      /\ Overlapped(k1, k2)
      /\ DoneCreate(k1, t) /\ DoNothing(sop[k1])
      /\ DoneCreate(k2, t) /\ DoNothing(sop[k2])
      /\ sop[k1].metadata # sop[k2].metadata
      /\ ~sdisturbed[k1] /\ ~sdisturbed[k2] )
    => /\ sret[k1].kind = "thread"
       /\ sret[k2].kind = "thread"
       /\ t \in DOMAIN store
       /\ \A k \in {k1, k2} :
            /\ sret[k].rec.thread_id = t
            /\ sret[k].rec.metadata = store[t].metadata
            /\ sret[k].rec.created_at = store[t].created_at

\* Two Postgres creates of a new id raced; the first insert's record is
\* what both returned.
C11_Witness ==
  \E k1, k2 \in SClients :
    /\ k1 # k2
    /\ sbackend = "pg"
    /\ Overlapped(k1, k2)
    /\ DoneCreate(k1, "t1") /\ DoNothing(sop[k1])
    /\ DoneCreate(k2, "t1") /\ DoNothing(sop[k2])
    /\ sop[k1].metadata # sop[k2].metadata
    /\ ~sdisturbed[k1] /\ ~sdisturbed[k2]
    /\ sret[k1] = sret[k2]
    /\ sret[k1].kind = "thread"
    /\ sret[k1].rec.created_at = 1
    /\ sret[k1].rec.metadata = sop[k1].metadata

(***************************************************************************)
(* C12: a create that finds its id stored leaves the store unchanged and   *)
(* returns the stored record when if_exists is 'do_nothing', and fails     *)
(* with ResourceExistsError otherwise; so of the concurrent creates with   *)
(* 'raise' on a new id all but one fail with ResourceExistsError.          *)
(***************************************************************************)
C12_CreateOnExistingThread ==
  [][\A k \in SClients :
       (Returns(k) /\ sop[k].op = "create" /\ sop[k].id \in DOMAIN store)
         => /\ store' = store
            /\ sret'[k] = IF sop[k].if_exists = "do_nothing"
                            THEN ThreadResult(store[sop[k].id])
                            ELSE Raised("ResourceExistsError")]_vars

(***************************************************************************)
(* C13: update on a stored thread merges the supplied metadata into the    *)
(* stored metadata key by key, replaces the status by the supplied one,    *)
(* sets updated_at to a later time and changes nothing else.               *)
(***************************************************************************)
C13_UpdateMergesMetadata ==
  [][\A k \in SClients :
       ( /\ Returns(k)
         /\ sop[k].op = "update"
         /\ sret'[k] = NoneResult
         /\ sop[k].id \in DOMAIN store )
       => LET t == sop[k].id
              old == store[t]
          IN /\ DOMAIN store' = DOMAIN store
             /\ \A u \in DOMAIN store \ {t} : store'[u] = store[u]
             /\ store'[t].thread_id = old.thread_id
             /\ store'[t].created_at = old.created_at
             /\ store'[t].status =
                  IF sop[k].status # "none" THEN sop[k].status ELSE old.status
             /\ store'[t].metadata =
                  IF sop[k].has_meta
                    THEN [key \in DOMAIN old.metadata \cup DOMAIN sop[k].metadata |->
                            IF key \in DOMAIN sop[k].metadata
                              THEN sop[k].metadata[key]
                              ELSE old.metadata[key]]
                    ELSE old.metadata
             /\ store'[t].updated_at > old.updated_at]_vars

(***************************************************************************)
(* C14: get, update, delete and acquire_lock whose id is not stored fail   *)
(* with ResourceNotFoundError and change no stored thread; a delete that   *)
(* succeeds leaves its id not stored, and get returns a thread exactly     *)
(* when its id is stored.                                                  *)
(***************************************************************************)
C14_UnstoredIdNotFound ==
  [][\A k \in SClients :
       /\ ( /\ spc[k] = "called"
            /\ spc'[k] # "called"
            /\ sop[k].op \in {"get", "update", "delete", "acquire_lock"}
            /\ sop[k].id \notin DOMAIN store )
          => /\ spc'[k] = "idle"
             /\ sret'[k] = [kind |-> "error", type |-> "ResourceNotFoundError"]
             /\ store' = store
       /\ (Returns(k) /\ sop[k].op = "delete" /\ sret'[k] = NoneResult)
          => sop[k].id \notin DOMAIN store'
       /\ (Returns(k) /\ sop[k].op = "get")
          => /\ (sret'[k].kind = "thread") <=> (sop[k].id \in DOMAIN store)
             /\ store' = store]_vars

\* A delete succeeded, and the get that ran concurrently and looked the
\* id up after it was refused.
C14_Witness ==
  \E k, j \in SClients :
    /\ k # j
    /\ store = << >>
    /\ sop[k].op = "delete" /\ sop[k].id = "t1" /\ sret[k] = NoneResult
    /\ sop[j].op = "get" /\ sop[j].id = "t1"
    /\ sret[j] = [kind |-> "error", type |-> "ResourceNotFoundError"]

(***************************************************************************)
(* C15: create_run_stream with if_not_exists='reject' on a thread that is  *)
(* not stored fails with ResourceNotFoundError without creating the        *)
(* thread, and the failed call never takes the lock, creates a queue,      *)
(* starts an executor or pushes a message.                                 *)
(***************************************************************************)
C15_RejectOnAbsentThread ==
  /\ [][\A c \in Calls :
          ( /\ rpc[c] = "idle"
            /\ rpc'[c] # "idle"
            /\ req'[c].if_not_exists = "reject"
            /\ req'[c].thread \notin DOMAIN threads )
          => /\ rpc'[c] = "failed"
             /\ rerr'[c] = "ResourceNotFoundError"
             /\ threads' = threads
             /\ UNCHANGED <<queues, epc, pushLog, heldBy>>]_vars
  /\ [](\A c \in Calls :
          rerr[c] = "ResourceNotFoundError"
            => /\ rpc[c] = "failed"
               /\ c \notin DOMAIN queues
               /\ epc[c] = "none"
               /\ pushLog[c] = << >>
               /\ \A t \in ThreadIds : heldBy[t] # c)

\* A call was refused for a thread that is still not stored.
C15_Witness ==
  \E c \in Calls :
    /\ rerr[c] = "ResourceNotFoundError"
    /\ req[c].if_not_exists = "reject"
    /\ req[c].thread \notin DOMAIN threads

GraphIds == {"g1", "g2"}

Registrable == {"g1"}

\* kinds of graph definition a caller registers
GraphKinds == {"StateGraph", "CompiledStateGraph"}

\* config arguments of get_graph
GConfigs == {"None", "cfg1", "cfg2"}

\* the services that call get_graph: create_run_stream sets the
\* checkpointer on the instance, the stateless service sets nothing
GServices == {"runs", "stateless"}

\* the object a caller registered
RegisteredObj == <<"registered", 0>>

\* the object compile() makes for request r: a new one every time
CompiledObj(r) == <<"compiled", r>>

\* attributes of a compiled graph nobody has written to
NewInstance == [config |-> "None", checkpointer |-> "None"]

\* compiled.config = config
SetConfig(h, o, cfg) ==
  [x \in (DOMAIN h) \cup {o} |->
     IF x = o THEN [(IF o \in DOMAIN h THEN h[o] ELSE NewInstance)
                      EXCEPT !.config = cfg]
              ELSE h[x]]

\* the instance get_graph hands to request r: a StateGraph is compiled
\* into a new object, anything else is the registered object itself
InstanceFor(def, r) ==
  IF def.kind = "StateGraph" THEN CompiledObj(r) ELSE def.obj

\* register_graph(graph_id, graph)
GRegister(g, kind) ==
  /\ g \notin DOMAIN GRAPHS
  /\ GRAPHS' = [x \in (DOMAIN GRAPHS) \cup {g} |->
                  IF x = g THEN [kind |-> kind, obj |-> RegisteredObj]
                           ELSE GRAPHS[x]]
  /\ heap' = IF kind = "CompiledStateGraph"
               THEN [x \in (DOMAIN heap) \cup {RegisteredObj} |->
                       IF x = RegisteredObj THEN NewInstance ELSE heap[x]]
               ELSE heap
  /\ UNCHANGED <<gpc, garg, ginst>>
  /\ UNCHANGED <<threads, tmVars, runVars, qVars, sVars, pVars>>

\* get_graph(graph_id, config) of request r, made by service s
GGetGraph(r, s, g, cfg) ==
  /\ gpc[r] = "idle"
  /\ \A q \in GRequests : q < r => gpc[q] # "idle"
  /\ garg' = [garg EXCEPT ![r] = [service |-> s, graph_id |-> g, config |-> cfg]]
  /\ IF g \notin DOMAIN GRAPHS
       THEN /\ gpc' = [gpc EXCEPT ![r] = "not_found"]
            /\ UNCHANGED <<heap, ginst>>
       ELSE /\ ginst' = [ginst EXCEPT ![r] = InstanceFor(GRAPHS[g], r)]
            /\ heap' = SetConfig(heap, InstanceFor(GRAPHS[g], r), cfg)
            /\ gpc' = [gpc EXCEPT ![r] = IF s = "runs" THEN "got" ELSE "running"]
  /\ UNCHANGED GRAPHS
  /\ UNCHANGED <<threads, tmVars, runVars, qVars, sVars, pVars>>

\* create_run_stream: graph.checkpointer = the global checkpointer
GSetCheckpointer(r) ==
  /\ gpc[r] = "got"
  /\ heap' = [heap EXCEPT ![ginst[r]].checkpointer = "global"]
  /\ gpc' = [gpc EXCEPT ![r] = "running"]
  /\ UNCHANGED <<GRAPHS, garg, ginst>>
  /\ UNCHANGED <<threads, tmVars, runVars, qVars, sVars, pVars>>

\* the request's run is over
GFinish(r) ==
  /\ gpc[r] = "running"
  /\ gpc' = [gpc EXCEPT ![r] = "done"]
  /\ UNCHANGED <<GRAPHS, heap, garg, ginst>>
  /\ UNCHANGED <<threads, tmVars, runVars, qVars, sVars, pVars>>

InitG ==
  /\ threads = << >>
  /\ TMInit
  /\ RunInit
  /\ QInit("memory")
  /\ SInit("memory")
  /\ GInit
  /\ PInit

NextG ==
  \/ \E g \in Registrable, kind \in GraphKinds : GRegister(g, kind)
  \/ \E r \in GRequests, s \in GServices, g \in GraphIds, cfg \in GConfigs :
       GGetGraph(r, s, g, cfg)
  \/ \E r \in GRequests : GSetCheckpointer(r)
  \/ \E r \in GRequests : GFinish(r)

SpecG == InitG /\ [][NextG]_vars

\* no cancel() and no cleanup() has been called
OnlyPushes == kpc = "none" /\ cleaned = "none"

\* the messages cancel() pushed among the listed messages q
CancelMessages(b, q) == SelectSeq(q, LAMBDA m : m = Read(b, CancelMsg(b)))

(***************************************************************************)
(* C17 as stated: get_all() on a queue that has only been pushed to        *)
(* returns the pushed messages, in push order, each equal in id, event,    *)
(* data and timestamp to the message pushed.                               *)
(***************************************************************************)
C17_GetAllReturnsPushed ==
  (got.called /\ OnlyPushes) => got.list = pushed

(***************************************************************************)
(* C17 amended: get_all() on a queue that has only been pushed to returns  *)
(* as many messages as were pushed, in push order, each with the id, event *)
(* and timestamp pushed and with the data pushed as it comes back from its *)
(* JSON form: equal for a dict, a list in place of a tuple on the Redis    *)
(* queue; the memory queue returns the pushed messages themselves; and     *)
(* get_all() leaves the stored messages as they are.                       *)
(***************************************************************************)
C17_GetAllReturnsPushedAsStored ==
  /\ []((got.called /\ OnlyPushes)
          => /\ Len(got.list) = Len(pushed)
             /\ \A i \in 1..Len(pushed) :
                  /\ got.list[i].id = pushed[i].id
                  /\ got.list[i].event = pushed[i].event
                  /\ got.list[i].timestamp = pushed[i].timestamp
                  /\ got.list[i].data.value = pushed[i].data.value
                  /\ got.list[i].data.type =
                       IF backend = "redis" /\ pushed[i].data.type = "tuple"
                         THEN "list"
                         ELSE pushed[i].data.type)
  /\ [][(got' # got /\ got'.called) => stream' = stream]_vars

\* get_all() on the Redis queue after three pushes, a "messages" event
\* with its tuple among them.
C17_Witness ==
  /\ got.called
  /\ OnlyPushes
  /\ backend = "redis"
  /\ Len(pushed) = 3
  /\ Len(got.list) = 3
  /\ \E i \in 1..3 : pushed[i].data.type = "tuple" /\ got.list[i].data.type = "list"

(***************************************************************************)
(* C18: once cancel() has been called and has returned, however often it   *)
(* is called again, the cancellation flag is set and the queue holds       *)
(* exactly one __stream_cancel__ message of cancel(); a repeated call      *)
(* changes neither the stored messages nor the flag (no cleanup() called). *)
(***************************************************************************)
C18_CancelIdempotent ==
  /\ []((kpc = "done" /\ cleaned = "none")
          => /\ cancel_event
             /\ Len(CancelMessages(backend, GetAllList(backend, stream))) = 1
             /\ Len(SelectSeq(pushed, LAMBDA m : m = CancelMsg(backend))) = 1)
  /\ [][(~kagain /\ kagain')
          => /\ stream' = stream
             /\ pushed' = pushed
             /\ cancel_event' = cancel_event
             /\ cancel_key' = cancel_key]_vars

\* cancel() returned and was called again, on a queue the producer pushed
\* to before and after.
C18_Witness ==
  /\ kpc = "done"
  /\ kagain
  /\ cleaned = "none"
  /\ cancel_event
  /\ Len(pushed) >= 3
  /\ pushed[1] # CancelMsg(backend)
  /\ pushed[Len(pushed)] # CancelMsg(backend)

(***************************************************************************)
(* C19: cleanup() raises nothing; the first cleanup(), a cleanup() of the  *)
(* memory queue and a cleanup() of a queue that holds no message leave no  *)
(* stored message, whether or not cancel() was called before; a cleanup()  *)
(* after a cleanup() leaves the flag as it is.                             *)
(***************************************************************************)
C19_CleanupIdempotent ==
  /\ [](xerr = "none")
  /\ [][cleaned' # cleaned
          => /\ xerr' = "none"
             /\ (backend = "memory" \/ cleaned = "none" \/ stream = << >>)
                  => stream' = << >>
             /\ cleaned # "none" => cancel_event' = cancel_event]_vars

\* cleanup() was called twice on a queue that was pushed to and cancelled;
\* the second call found the queue empty.
C19_Witness ==
  /\ cleaned = "again"
  /\ stream = << >>
  /\ xerr = "none"
  /\ kpc = "done"
  /\ npush > 0
  /\ \E i \in 1..Len(pushed) : pushed[i] = CancelMsg(backend)

(***************************************************************************)
(* C20: get_graph returns nothing for an unregistered id; any two requests *)
(* that got a graph hold distinct instances, and the instance a request    *)
(* holds carries the config of that request's get_graph call and a         *)
(* checkpointer only if that request's service set one.                    *)
(***************************************************************************)
C20_DistinctInstances ==
  /\ [][\A r \in GRequests :
          (gpc[r] = "idle" /\ gpc'[r] # "idle")
            => (gpc'[r] = "not_found" <=> garg'[r].graph_id \notin DOMAIN GRAPHS)]_vars
  /\ [](\A r \in GRequests :
          (gpc[r] \in {"got", "running"})
            => /\ heap[ginst[r]].config = garg[r].config
               /\ garg[r].service = "stateless"
                    => heap[ginst[r]].checkpointer = "None"
               /\ \A q \in GRequests \ {r} :
                    gpc[q] \in {"got", "running"} => ginst[q] # ginst[r])

\* ---------------------------------------------------------------------
\* SpecF: functions of the executors and of the application, applied to
\* arguments drawn from bounded sets.
\* ---------------------------------------------------------------------

\* dict.update: the keys of e are added to d, replacing d's values.
DictUpdate(d, e) ==
  [k \in DOMAIN d \cup DOMAIN e |-> IF k \in DOMAIN e THEN e[k] ELSE d[k]]

\* An optional dict, list or integer: << >> is None, Some(v) a value.
Some(v) == <<v>>

\* `if x:` for an optional string: None and "" are skipped.
TruthyStr(x) == x # None /\ x # ""

\* `if x:` for an optional dict or list: None, {} and [] are skipped.
TruthyColl(x) == x # << >> /\ x[1] # << >>

CheckpointIds == {None, "", "ck1"}

CheckpointNss == {None, "", "ns1"}

AbsentCheckpoint == [present |-> FALSE]

Checkpoints ==
  {AbsentCheckpoint} \cup
  [present : {TRUE}, checkpoint_id : CheckpointIds,
   checkpoint_ns : CheckpointNss]

ConfigurableKeys == {"thread_id", "checkpoint_id", "checkpoint_ns",
                     "custom_key"}

CallerValue(k) == IF k = "thread_id" THEN "t2" ELSE "caller"

CallerConfigurables ==
  {<< >>} \cup
  {Some([k \in ks |-> CallerValue(k)]) : ks \in SUBSET ConfigurableKeys}

CallerTags == {<< >>, Some(<< >>), Some(<<"tag1">>)}

RecursionLimits == {<< >>, Some(0), Some(100)}

NoUserConfig == [present |-> FALSE]

UserConfigs ==
  {NoUserConfig} \cup
  [present : {TRUE}, configurable : CallerConfigurables,
   tags : CallerTags, recursion_limit : RecursionLimits]

BuildConfigArgs ==
  [fn : {"_build_config"}, thread_id : ThreadIds,
   checkpoint : Checkpoints, config : UserConfigs]

\* configurable after the checkpoint of the payload has been applied.
WithCheckpoint(configurable, checkpoint) ==
  LET c1 == IF checkpoint.present /\ TruthyStr(checkpoint.checkpoint_id)
            THEN DictUpdate(configurable,
                            [k \in {"checkpoint_id"} |->
                               checkpoint.checkpoint_id])
            ELSE configurable
  IN  IF checkpoint.present /\ TruthyStr(checkpoint.checkpoint_ns)
      THEN DictUpdate(c1, [k \in {"checkpoint_ns"} |->
                             checkpoint.checkpoint_ns])
      ELSE c1

\* configurable after the caller's config has been applied.
WithUserConfigurable(configurable, config) ==
  IF config.present /\ TruthyColl(config.configurable)
  THEN DictUpdate(configurable, config.configurable[1])
  ELSE configurable

\* GraphExecutor._build_config(thread_id, payload).
BuildConfig(thread_id, checkpoint, config) ==
  LET c0 == [k \in {"thread_id"} |-> thread_id]
      c1 == WithCheckpoint(c0, checkpoint)
      c2 == WithUserConfigurable(c1, config)
  IN  [configurable |-> c2,
       tags |-> IF config.present /\ TruthyColl(config.tags)
                THEN config.tags ELSE << >>,
       recursion_limit |-> IF config.present THEN config.recursion_limit
                           ELSE << >>]

FBuildConfig ==
  /\ fargs.fn = "_build_config"
  /\ fresult = NotApplied
  /\ fresult' = [kind |-> "config",
                 value |-> BuildConfig(fargs.thread_id, fargs.checkpoint,
                                       fargs.config)]
  /\ UNCHANGED <<threads, tmVars, runVars, qVars, sVars, gVars, fargs>>
  /\ UNCHANGED <<bVars, kVars, mVars, cpVars, xVars>>

\* a bare payload that is the empty mapping
EmptyMappingEvent ==
  [shape |-> "bare", ns |-> "", mode |-> "", payload |-> [isdict |-> TRUE, keys |-> {}]]

\* a (namespace, mode, payload) triple whose namespace is None
NoneNamespaceEvent ==
  [shape |-> "triple", ns |-> None, mode |-> "updates", payload |-> PlainPayload]

GraphEvents == {ValuesEvent, DemoInterruptEvent, BareEvent,
                SubgraphInterruptEvent, NonePayloadEvent, EmptyMappingEvent,
                NoneNamespaceEvent}

EventSeqs == UNION {[1..n -> GraphEvents] : n \in 0..MaxEvents}

\* what the graph's astream does: it yields the events, then is exhausted
\* (NoExc) or raises
StreamGraphArgs ==
  [fn : {"stream_graph"}, thread_id : {"t1"}, assistant_id : {"demo"},
   events : EventSeqs, exc : {NoExc, NodeFailedExc}]

\* An interrupt flag that holds what the last handled event returned.
LastInterrupt(events) ==
  Len(events) > 0 /\ IsInterrupt(events[Len(events)].payload)

\* thread_interrupted after the loop: some handled event was an interrupt
AnyInterrupt(events) ==
  \E i \in 1..Len(events) : IsInterrupt(events[i].payload)

\* the thread status _finalize_execution reads when only this run writes
\* it: busy, or interrupted once an interrupt event was handled
StatusAfter(events) == IF AnyInterrupt(events) THEN "interrupted" ELSE "busy"

\* GraphExecutor.stream_graph: the messages pushed, in order
StatefulPushes(thread_id, assistant_id, events, err) ==
  <<MetadataMsg(thread_id, assistant_id)>>
  \o [i \in 1..Len(events) |-> EventMsg(events[i])]
  \o <<IF err # NoExc THEN ErrorMsg(err)
                      ELSE EndMsg(EndStatus(StatusAfter(events)))>>

StatelessMetadataMsg(a) ==
  [event |-> "metadata", data |-> [assistant_id |-> a]]

\* StatelessGraphExecutor._handle_error
StatelessErrorMsg(x) ==
  [event |-> "error", data |-> [error |-> x.msg, type |-> x.type]]

\* A finalization that ignores the interrupt it was told about.
StatelessEndMsgAlwaysSuccess(thread_interrupted) == EndMsg("success")

\* StatelessGraphExecutor._finalize_execution
StatelessEndMsg(thread_interrupted) ==
  EndMsg(IF thread_interrupted THEN "interrupted" ELSE "success")

\* StatelessGraphExecutor.stream_graph: the messages pushed, in order
StatelessPushes(assistant_id, events, err) ==
  <<StatelessMetadataMsg(assistant_id)>>
  \o [i \in 1..Len(events) |-> EventMsg(events[i])]
  \o <<IF err # NoExc THEN StatelessErrorMsg(err)
                      ELSE StatelessEndMsg(AnyInterrupt(events))>>

FStreamGraph ==
  /\ fargs.fn = "stream_graph"
  /\ fresult = NotApplied
  /\ fresult' = [kind |-> "pushes",
                 stateful |-> StatefulPushes(fargs.thread_id,
                                             fargs.assistant_id,
                                             fargs.events, fargs.exc),
                 stateless |-> StatelessPushes(fargs.assistant_id,
                                               fargs.events, fargs.exc)]
  /\ UNCHANGED <<threads, tmVars, runVars, qVars, sVars, gVars, fargs>>
  /\ UNCHANGED <<bVars, kVars, mVars, cpVars, xVars>>

\* exception classes a request can end with before the background task
\* exists, and RuntimeError for any other
ErrorClasses == {"ValidationError", "PydanticValidationError",
                 "ResourceNotFoundError", "ResourceExistsError",
                 "GraphNotFoundError", "RuntimeError"}

\* method resolution order: every class of errors.py derives from Exception
Mro(cls) ==
  IF cls = "RuntimeError" THEN <<"RuntimeError", "Exception">>
  ELSE IF cls = "PydanticValidationError"
       THEN <<"PydanticValidationError", "ValueError", "Exception">>
       ELSE <<cls, "Exception">>

\* the handlers create_app registers: exception class -> status code
ExceptionHandlers ==
  [cls \in {"ValidationError", "PydanticValidationError",
            "ResourceNotFoundError", "Exception"} |->
     CASE cls = "ValidationError" -> 400
       [] cls = "PydanticValidationError" -> 400
       [] cls = "ResourceNotFoundError" -> 404
       [] cls = "Exception" -> 500]

\* the handler of the first class of the exception's MRO that has one
StatusCode(cls) ==
  LET mro == Mro(cls)
      first == CHOOSE i \in 1..Len(mro) :
                 /\ mro[i] \in DOMAIN ExceptionHandlers
                 /\ \A j \in 1..(i - 1) : mro[j] \notin DOMAIN ExceptionHandlers
  IN  ExceptionHandlers[mro[first]]

HandlerArgs == [fn : {"exception_handler"}, exc : ErrorClasses]

FHandleException ==
  /\ fargs.fn = "exception_handler"
  /\ fresult = NotApplied
  /\ fresult' = [kind |-> "response", status_code |-> StatusCode(fargs.exc)]
  /\ UNCHANGED <<threads, tmVars, runVars, qVars, sVars, gVars, fargs>>
  /\ UNCHANGED <<bVars, kVars, mVars, cpVars, xVars>>

\* metadata values: the number 1 and the string "1"
IntOne == [t |-> "int", v |-> "1"]

StrOne == [t |-> "str", v |-> "1"]

SearchMetas == {<< >>, [key \in {"a"} |-> IntOne], [key \in {"a"} |-> StrOne]}

SearchRows ==
  [thread_id : ThreadIds, status : {"idle", "busy"}, metadata : SearchMetas]

\* the stored threads, oldest first, one row per id
SearchStores ==
  {<< >>} \cup {<<r>> : r \in SearchRows}
  \cup {<<r1, r2>> : r1 \in {r \in SearchRows : r.thread_id = "t1"},
                     r2 \in {r \in SearchRows : r.thread_id = "t2"}}

\* ids: None, [] or a list
IdsArgs == {<< >>, Some({}), Some({"t1"}), Some({"t1", "t2"})}

StatusArgs == {None, "idle", "busy"}

\* metadata: None, {} or a filter on key a
MetadataArgs == {<< >>} \cup {Some(m) : m \in SearchMetas}

SearchArgs ==
  [fn : {"search"}, backend : SBackends, store : SearchStores, ids : IdsArgs,
   status : StatusArgs, metadata : MetadataArgs, limit : {1, 10},
   offset : {0, 1, 2}]

\* seq[offset:offset + limit]
Slice(seq, offset, limit) ==
  SubSeq(seq, offset + 1,
         IF offset + limit < Len(seq) THEN offset + limit ELSE Len(seq))

Reverse(seq) == [i \in 1..Len(seq) |-> seq[Len(seq) + 1 - i]]

\* MemoryThreadsManager.search: the filter of one thread
MemMatches(row, ids, status, metadata) ==
  /\ ids # << >> => row.thread_id \in ids[1]
  /\ status # None => row.status = status
  /\ metadata # << >> =>
       \A key \in DOMAIN metadata[1] :
         key \in DOMAIN row.metadata /\ row.metadata[key] = metadata[1][key]

\* MemoryThreadsManager.search
MemSearch(stored, ids, status, metadata, limit, offset) ==
  Slice(SelectSeq(stored, LAMBDA row : MemMatches(row, ids, status, metadata)),
        offset, limit)

\* metadata_[key].astext of a stored value, str(value) of a filter value
AsText(x) == x.v

\* PostgresThreadsManager.search: the WHERE clause
PgMatches(row, ids, status, metadata) ==
  /\ (ids # << >> /\ ids[1] # {}) => row.thread_id \in ids[1]
  /\ status # None => row.status = status
  /\ (metadata # << >> /\ metadata[1] # << >>) =>
       \A key \in DOMAIN metadata[1] :
         /\ key \in DOMAIN row.metadata
         /\ AsText(row.metadata[key]) = AsText(metadata[1][key])

\* PostgresThreadsManager.search: newest first, LIMIT and OFFSET
PgSearch(stored, ids, status, metadata, limit, offset) ==
  Slice(SelectSeq(Reverse(stored),
                  LAMBDA row : PgMatches(row, ids, status, metadata)),
        offset, limit)

FSearch ==
  /\ fargs.fn = "search"
  /\ fresult = NotApplied
  /\ fresult' =
       [kind |-> "threads",
        list |-> IF fargs.backend = "memory"
                   THEN MemSearch(fargs.store, fargs.ids, fargs.status,
                                  fargs.metadata, fargs.limit, fargs.offset)
                   ELSE PgSearch(fargs.store, fargs.ids, fargs.status,
                                 fargs.metadata, fargs.limit, fargs.offset)]
  /\ UNCHANGED <<threads, tmVars, runVars, qVars, sVars, gVars, fargs>>
  /\ UNCHANGED <<bVars, kVars, mVars, cpVars, xVars>>

\* a JSON value of the request: its type, and whether Python takes it as
\* false ({}, [], "", 0.0, False)
JsonValues ==
  [type : {"dict", "list", "str", "float", "bool"}, falsy : BOOLEAN]

EmptyDict == [type |-> "dict", falsy |-> TRUE]

NoGoto == [kind |-> "none"]

NodeName(n) == [kind |-> "str", name |-> n]

SendTo(n) == [kind |-> "Send", node |-> n, input |-> EmptyDict]

\* goto: None, a name, "", a Send, or a list of names and Sends
GotoArgs ==
  {NoGoto, NodeName("hitl"), NodeName(""), SendTo("hitl"),
   [kind |-> "list", items |-> << >>],
   [kind |-> "list", items |-> <<NodeName("hitl"), NodeName("normal")>>],
   [kind |-> "list", items |-> <<SendTo("hitl"), SendTo("normal")>>],
   [kind |-> "list", items |-> <<NodeName("hitl"), SendTo("normal")>>]}

CommandArgs ==
  {<< >>}
  \cup {Some([update |-> << >>, resume |-> Some(v), goto |-> g]) :
          v \in {[type |-> "str", falsy |-> FALSE],
                 [type |-> "bool", falsy |-> TRUE]},
          g \in GotoArgs}

PrepareInputArgs ==
  [fn : {"prepare_input"}, command : CommandArgs,
   input : {<< >>} \cup {Some(v) : v \in JsonValues}]

\* LangGraphSend(node=item.node, arg=item.input)
LangGraphSend(item) ==
  [kind |-> "LangGraphSend", node |-> item.node, arg |-> item.input]

\* `if payload.command.goto:` for a name, a Send or a list
TruthyGoto(g) ==
  CASE g.kind = "none" -> FALSE
    [] g.kind = "str" -> g.name # ""
    [] g.kind = "list" -> g.items # << >>
    [] OTHER -> TRUE

\* _prepare_input: the goto of the engine's Command
TranslateGoto(g) ==
  IF ~TruthyGoto(g) THEN NoGoto
  ELSE CASE g.kind = "str" -> g
         [] g.kind = "list" ->
              [kind |-> "list",
               items |-> [i \in 1..Len(g.items) |->
                            IF g.items[i].kind = "str" THEN g.items[i]
                            ELSE LangGraphSend(g.items[i])]]
         [] OTHER -> LangGraphSend(g)

\* _prepare_input
PrepareInput(command, input) ==
  IF command # << >>
    THEN [kind |-> "Command", update |-> command[1].update,
          resume |-> command[1].resume, goto |-> TranslateGoto(command[1].goto)]
    ELSE IF input = << >> \/ input[1].falsy
           THEN [kind |-> "input", value |-> EmptyDict]
           ELSE [kind |-> "input", value |-> input[1]]

FPrepareInput ==
  /\ fargs.fn = "prepare_input"
  /\ fresult = NotApplied
  /\ fresult' = [kind |-> "graph_input",
                 value |-> PrepareInput(fargs.command, fargs.input)]
  /\ UNCHANGED <<threads, tmVars, runVars, qVars, sVars, gVars, fargs>>
  /\ UNCHANGED <<bVars, kVars, mVars, cpVars, xVars>>

FArgs ==
  BuildConfigArgs \cup StreamGraphArgs \cup HandlerArgs \cup SearchArgs
  \cup PrepareInputArgs

InitF ==
  /\ threads = << >>
  /\ TMInit
  /\ RunInit
  /\ QInit("memory")
  /\ SInit("memory")
  /\ GInit
  /\ fargs \in FArgs
  /\ fresult = NotApplied
  /\ BInit
  /\ KInit("memory")
  /\ MInit
  /\ CpInit("memory", 300)
  /\ XInit

NextF ==
  \/ FBuildConfig
  \/ FStreamGraph
  \/ FHandleException
  \/ FSearch
  \/ FPrepareInput

SpecF == InitF /\ [][NextF]_vars

\* The configurable map the caller supplied, {} when there is none.
CallerConfigurable ==
  IF fargs.config.present /\ fargs.config.configurable # << >>
  THEN fargs.config.configurable[1] ELSE << >>

\* C21: the config the stateful executor builds has configurable.thread_id
\* equal to the selected thread id, also when the caller's configurable
\* has a thread_id key, and for every other configurable key the caller's
\* value wins over the value derived from the checkpoint.
C21_ThreadIdFixedCallerWins ==
  fresult.kind = "config" =>
    /\ fresult.value.configurable["thread_id"] = fargs.thread_id
    /\ \A k \in DOMAIN CallerConfigurable \ {"thread_id"} :
         fresult.value.configurable[k] = CallerConfigurable[k]

\* ---------------------------------------------------------------------
\* SpecR: the background task of one run (executor, grace delay, cleanup)
\* and the consumer of the run's queue.
\* ---------------------------------------------------------------------
RunServices == {"stateful", "stateless"}

StreamOutcomes == {"success", "interrupted", "error"}

\* event name of the message the executor pushes last
TerminalEventOf(service, outcome) ==
  IF outcome = "error"
  THEN IF service = "stateful" THEN "__stream_error__" ELSE "error"
  ELSE "__stream_end__"

\* the other variables of SpecR's actions
RFrame == UNCHANGED <<threads, tmVars, runVars, sVars, gVars, fVars, kVars,
                      mVars, cpVars, xVars>>

\* queue.push of the background task
RPush(k) ==
  /\ ~LockHeld
  /\ npush' = npush + 1
  /\ QAppend(ProducerMsg(k, npush + 1))
  /\ UNCHANGED <<backend, cancel_event, cancel_key, kpc, cpc, index, last_id,
                 batch, message, yielded, cancelAt>>
  /\ UNCHANGED <<kagain, cleaned, xerr>>
  /\ UNCHANGED <<bservice, boutcome>>
  /\ RFrame

\* stream_graph: the metadata event
RPushMeta ==
  /\ bpc = "metadata"
  /\ RPush("metadata")
  /\ bpc' = "events"
  /\ bleft' = bleft

\* stream_graph: _handle_event pushes the next event of the graph
RPushEvent ==
  /\ bpc = "events"
  /\ bleft > 0
  /\ RPush("values")
  /\ bpc' = "events"
  /\ bleft' = bleft - 1

\* stream_graph: _finalize_execution or _handle_error pushes the last
\* message; execute_graph then logs the exception, if any
RPushTerminal ==
  /\ bpc = "events"
  /\ bleft = 0
  /\ RPush(TerminalEventOf(bservice, boutcome))
  /\ bpc' = "grace"
  /\ bleft' = bleft

\* A background task that the executor's exception ends: no finally clause
\* runs.
RGraceUnlessRaised ==
  /\ bpc = "grace"
  /\ bpc' = IF boutcome = "error" THEN "done" ELSE "cleanup"
  /\ UNCHANGED <<bservice, boutcome, bleft>>
  /\ UNCHANGED qVars
  /\ RFrame

\* execute_graph, finally: asyncio.sleep(1) is over
RGrace ==
  /\ bpc = "grace"
  /\ bpc' = "cleanup"
  /\ UNCHANGED <<bservice, boutcome, bleft>>
  /\ UNCHANGED qVars
  /\ RFrame

\* execute_graph, finally: queue.cleanup()
RCleanup ==
  /\ bpc = "cleanup"
  /\ ~LockHeld
  /\ bpc' = "done"
  /\ cleaned' = "once"
  /\ xerr' = CleanupOutcome("none")
  /\ got' = NoGot
  /\ IF backend = "memory"
       THEN /\ stream' = << >>
            /\ cancel_event' = TRUE
            /\ cancel_key' = cancel_key
       ELSE /\ cancel_event' = cancel_event
            /\ IF initialized
                 THEN /\ stream' = << >>
                      /\ cancel_key' = FALSE
                 ELSE UNCHANGED <<stream, cancel_key>>
  /\ UNCHANGED <<backend, npush, kpc, cpc, index, last_id, batch, message,
                 pushed, yielded, cancelAt, initialized, kagain>>
  /\ UNCHANGED <<bservice, boutcome, bleft>>
  /\ RFrame

InitR ==
  /\ threads = << >>
  /\ TMInit
  /\ RunInit
  /\ \E b \in Backends : QInit(b)
  /\ SInit("memory")
  /\ GInit
  /\ FInit
  /\ KInit("memory")
  /\ bservice \in RunServices
  /\ boutcome \in StreamOutcomes
  /\ bleft \in 0..MaxEvents
  /\ boutcome = "interrupted" => bleft > 0
  /\ bpc = "metadata"
  /\ MInit
  /\ CpInit("memory", 300)
  /\ XInit

BackgroundStep ==
  \/ RPushMeta
  \/ RPushEvent
  \/ RPushTerminal
  \/ RGrace
  \/ RCleanup

NextR ==
  \/ RPushMeta
  \/ RPushEvent
  \/ RPushTerminal
  \/ RGrace
  \/ RCleanup
  \/ QStart
  \/ MemCheck
  \/ MemYield
  \/ MemResume
  \/ MemRelease
  \/ MemWake
  \/ RedisCheck
  \/ RedisGetKey
  \/ RedisXRead
  \/ RedisYield
  \/ RedisResume

SpecR == InitR /\ [][NextR]_vars

\* The background task runs to its end: asyncio.Lock wakes its waiters in
\* the order they arrived, so a push or cleanup that waits for the lock
\* gets it. The client starts reading the response and keeps asking for
\* the next message.
FairSpecR ==
  SpecR /\ SF_vars(BackgroundStep) /\ WF_vars(QStart) /\ WF_vars(ConsumerStep)

\* the message the consumer yielded last is the last message of the run
RunTerminalYielded ==
  /\ yielded # << >>
  /\ yielded[Len(yielded)].event = TerminalEventOf(bservice, boutcome)

\* C22: the stream served to the client of a run, stateful or stateless,
\* terminates once the run's terminal event has been yielded, the error
\* event of a stateless run whose graph raises included.
C22_StreamEndsAfterTerminal == RunTerminalYielded ~> cpc = "done"

\* ---------------------------------------------------------------------
\* SpecK: the checkpointer managers and the saver create_run_stream
\* attaches to the graph of each run.
\* ---------------------------------------------------------------------
CheckpointerBackends == {"memory", "pg"}

MaxRuns == 3

MaxCheckpoints == 2

KFrame == UNCHANGED <<threads, tmVars, runVars, qVars, sVars, gVars, fVars,
                      bVars, mVars, cpVars, xVars>>

\* get_checkpointer(): a new saver; InMemorySaver() starts with an empty
\* storage of its own, AsyncPostgresSaver(pool) has none of its own
NewSaver == {}

\* index in the heap of the saver get_checkpointer() returns
GetCheckpointer(savers) == Len(savers) + 1

\* the checkpoints a saver reads
Visible(h) == IF cbackend = "memory" THEN cheap[h] ELSE cpool

\* create_run_stream: graph.checkpointer = get_checkpointer()
KStartRun(t) ==
  /\ Len(cruns) < MaxRuns
  /\ LET h == GetCheckpointer(cheap)
     IN  /\ cheap' = IF h > Len(cheap) THEN Append(cheap, NewSaver) ELSE cheap
         /\ cruns' = Append(cruns, [thread |-> t, saver |-> h, writes |-> {}])
  /\ UNCHANGED <<cbackend, cpool>>
  /\ KFrame

\* the graph of the latest run on its thread writes a checkpoint through
\* the saver attached to it
KPut(r) ==
  /\ r \in 1..Len(cruns)
  /\ \A r2 \in (r + 1)..Len(cruns) : cruns[r2].thread # cruns[r].thread
  /\ Cardinality(cruns[r].writes) < MaxCheckpoints
  /\ LET c == <<cruns[r].thread, r, Cardinality(cruns[r].writes) + 1>>
         h == cruns[r].saver
     IN  /\ cruns' = [cruns EXCEPT ![r].writes = @ \cup {c}]
         /\ IF cbackend = "memory"
              THEN /\ cheap' = [cheap EXCEPT ![h] = @ \cup {c}]
                   /\ cpool' = cpool
              ELSE /\ cpool' = cpool \cup {c}
                   /\ cheap' = cheap
  /\ cbackend' = cbackend
  /\ KFrame

InitK ==
  /\ threads = << >>
  /\ TMInit
  /\ RunInit
  /\ QInit("memory")
  /\ SInit("memory")
  /\ GInit
  /\ FInit
  /\ BInit
  /\ \E b \in CheckpointerBackends : KInit(b)
  /\ MInit
  /\ CpInit("memory", 300)
  /\ XInit

NextK ==
  \/ \E t \in ThreadIds : KStartRun(t)
  \/ \E r \in 1..MaxRuns : KPut(r)

SpecK == InitK /\ [][NextK]_vars

\* C23: the checkpoint store handle attached for a run on thread T gives
\* access to the checkpoints written by every earlier run on T, with the
\* in-memory and with the Postgres checkpointer.
C23_EarlierCheckpointsVisible ==
  \A r \in 1..Len(cruns) : \A e \in 1..(r - 1) :
    cruns[e].thread = cruns[r].thread =>
      cruns[e].writes \subseteq Visible(cruns[r].saver)

\* C24: the queue of a run is cleaned up only after the consumer has been
\* handed the terminal event, so in every interleaving of the background
\* task with the consumer, the consumer receives every pushed message, in
\* order, up to and including the terminal event.
C24_CleanupAfterTerminalDelivered ==
  /\ [][(cleaned = "none" /\ cleaned' # "none") => RunTerminalYielded]_vars
  /\ [](cpc = "done" => yielded = ReadAll(backend, pushed))

C26_ErrorStatusCodes ==
  fresult.kind = "response" =>
    fresult.status_code =
      CASE fargs.exc \in {"ValidationError", "PydanticValidationError"} -> 400
        [] fargs.exc = "ResourceNotFoundError" -> 404
        [] fargs.exc = "ResourceExistsError" -> 409
        [] fargs.exc = "GraphNotFoundError" -> 404
        [] OTHER -> 500

\* ---------------------------------------------------------------------
\* SpecM: StreamQueueManager and the queues it tracks.
\* ---------------------------------------------------------------------
MaxQueues == 3

MFrame == UNCHANGED <<threads, tmVars, runVars, qVars, sVars, gVars, fVars,
                      bVars, kVars, cpVars, xVars>>

\* queue_class(queue_id, ttl): a queue with no message, not cancelled
NewQueue(ttl) ==
  [flag |-> FALSE, msgs |-> << >>, ttl |-> ttl, cleaned |-> FALSE]

\* dict: d[k] = v
DictSet(d, k, v) ==
  [x \in DOMAIN d \cup {k} |-> IF x = k THEN v ELSE d[x]]

\* dict: del d[k]
DictDel(d, k) == [x \in DOMAIN d \ {k} |-> d[x]]

Returned(op, id, obj) == [op |-> op, id |-> id, kind |-> "queue", obj |-> obj]

ReturnedNone(op, id) == [op |-> op, id |-> id, kind |-> "None", obj |-> 0]

RaisedError(op, id, type) == [op |-> op, id |-> id, kind |-> type, obj |-> 0]

\* another caller is between the cancel() and the del of cancel_queue(id)
Cancelling(k, id) ==
  \E o \in MCallers \ {k} : mpc[o] = "cancelling" /\ marg[o] = id

\* create_queue(queue_id, ttl)
MCreate(k, id) ==
  /\ mpc[k] = "idle"
  /\ Len(mheap) < MaxQueues
  /\ mheap' = Append(mheap, NewQueue(300))
  /\ mqueues' = DictSet(mqueues, id, Len(mheap) + 1)
  /\ mret' = [mret EXCEPT ![k] = Returned("create_queue", id, Len(mheap) + 1)]
  /\ mlatest' = [mlatest EXCEPT ![id] = Len(mheap) + 1]
  /\ mcancelled' = [mcancelled EXCEPT ![id] = FALSE]
  /\ movl' = [movl EXCEPT ![id] = Cancelling(k, id)]
  /\ UNCHANGED <<mpc, marg>>
  /\ MFrame

\* A lookup that answers with None for a missing id.
GetQueueOrNone(tracked, id) ==
  IF id \notin DOMAIN tracked THEN ReturnedNone("get_queue", id)
                             ELSE Returned("get_queue", id, tracked[id])

\* get_queue(queue_id)
GetQueue(tracked, id) ==
  IF id \notin DOMAIN tracked THEN RaisedError("get_queue", id, "ValueError")
                             ELSE Returned("get_queue", id, tracked[id])

MGet(k, id) ==
  /\ mpc[k] = "idle"
  /\ mret' = [mret EXCEPT ![k] = GetQueue(mqueues, id)]
  /\ UNCHANGED <<mqueues, mheap, mpc, marg, mlatest, mcancelled, movl>>
  /\ MFrame

\* the queue's cancel(): flag set and __stream_cancel__ pushed, once
CancelQueue(q) ==
  IF q.flag THEN q
  ELSE [q EXCEPT !.flag = TRUE, !.msgs = Append(@, "__stream_cancel__")]

\* cancel_queue(queue_id) up to the return of the awaited cancel(); for an
\* id that is not tracked the call returns here
MCancelBegin(k, id) ==
  /\ mpc[k] = "idle"
  /\ IF id \in DOMAIN mqueues
       THEN /\ mheap' = [mheap EXCEPT ![mqueues[id]] = CancelQueue(@)]
            /\ mpc' = [mpc EXCEPT ![k] = "cancelling"]
            /\ marg' = [marg EXCEPT ![k] = id]
            /\ mret' = mret
            /\ mcancelled' = [mcancelled EXCEPT ![id] = TRUE]
            /\ movl' = [movl EXCEPT ![id] = @ \/ Cancelling(k, id)]
       ELSE /\ mret' = [mret EXCEPT ![k] = ReturnedNone("cancel_queue", id)]
            /\ UNCHANGED <<mheap, mpc, marg, mcancelled, movl>>
  /\ UNCHANGED <<mqueues, mlatest>>
  /\ MFrame

\* cancel_queue(queue_id): del self.queues[queue_id]
MCancelEnd(k) ==
  /\ mpc[k] = "cancelling"
  /\ IF marg[k] \in DOMAIN mqueues
       THEN /\ mqueues' = DictDel(mqueues, marg[k])
            /\ mret' = [mret EXCEPT ![k] = ReturnedNone("cancel_queue", marg[k])]
       ELSE /\ mqueues' = mqueues
            /\ mret' = [mret EXCEPT ![k] =
                          RaisedError("cancel_queue", marg[k], "KeyError")]
  /\ mpc' = [mpc EXCEPT ![k] = "idle"]
  /\ marg' = [marg EXCEPT ![k] = "none"]
  /\ UNCHANGED <<mheap, mlatest, mcancelled, movl>>
  /\ MFrame

InitM ==
  /\ threads = << >>
  /\ TMInit
  /\ RunInit
  /\ QInit("memory")
  /\ SInit("memory")
  /\ GInit
  /\ PInit

NextM ==
  \/ \E k \in MCallers, id \in QueueIds : MCreate(k, id)
  \/ \E k \in MCallers, id \in QueueIds : MGet(k, id)
  \/ \E k \in MCallers, id \in QueueIds : MCancelBegin(k, id)
  \/ \E k \in MCallers : MCancelEnd(k)

SpecM == InitM /\ [][NextM]_vars

\* the memory queue's cleanup(): messages cleared, cancel_event set
CleanupQueue(q) ==
  [q EXCEPT !.msgs = << >>, !.flag = TRUE, !.cleaned = TRUE]

\* execute_graph, finally: queue.cleanup() on the queue the run created;
\* the background task holds the queue object, not the manager
MRunCleanup(obj) ==
  /\ obj \in 1..Len(mheap)
  /\ ~mheap[obj].cleaned
  /\ mheap' = [mheap EXCEPT ![obj] = CleanupQueue(@)]
  /\ UNCHANGED <<mqueues, mpc, marg, mret, mlatest, mcancelled, movl>>
  /\ MFrame

\* The manager as the run services use it: each run creates its queue and
\* its background task cleans it up.
NextMB ==
  \/ \E k \in MCallers, id \in QueueIds : MCreate(k, id)
  \/ \E k \in MCallers, id \in QueueIds : MGet(k, id)
  \/ \E obj \in 1..MaxQueues : MRunCleanup(obj)

SpecMB == InitM /\ [][NextMB]_vars

\* C27: get_queue(id) returns the instance created last under id if one
\* was created and cancel_queue(id) was not called since, and fails with
\* the not-found error otherwise; cancel_queue(id) cancels that queue (flag
\* set, __stream_cancel__ pushed) and removes it; cancel_queue on an id
\* that is not tracked changes nothing and raises nothing. Stated for
\* calls on an id that do not overlap a cancel_queue of that id.
C27_ManagerTracksQueues ==
  [][\A k \in MCallers :
       /\ \A id \in QueueIds :
            (MGet(k, id) /\ ~movl[id] /\ ~Cancelling(k, id)) =>
              mret'[k] = IF mlatest[id] # 0 /\ ~mcancelled[id]
                           THEN Returned("get_queue", id, mlatest[id])
                           ELSE RaisedError("get_queue", id, "ValueError")
       /\ \A id \in QueueIds :
            (MCancelBegin(k, id) /\ id \notin DOMAIN mqueues) =>
              /\ UNCHANGED <<mqueues, mheap>>
              /\ mret'[k] = ReturnedNone("cancel_queue", id)
       /\ (MCancelEnd(k) /\ ~movl[marg[k]]) =>
            /\ marg[k] \notin DOMAIN mqueues'
            /\ mheap'[mlatest[marg[k]]].flag
            /\ mheap'[mlatest[marg[k]]].msgs = <<"__stream_cancel__">>
            /\ mret'[k] = ReturnedNone("cancel_queue", marg[k])]_vars

\* A queue was created under q1 twice; the second instance was cancelled
\* and removed, and a lookup of q1 then failed with the not-found error.
C27_Witness ==
  /\ mlatest["q1"] = 2
  /\ mcancelled["q1"]
  /\ ~movl["q1"]
  /\ "q1" \notin DOMAIN mqueues
  /\ mheap[2].flag
  /\ mret[1] = RaisedError("get_queue", "q1", "ValueError")
  /\ mret[2] = ReturnedNone("cancel_queue", "q1")

\* ---------------------------------------------------------------------
\* SpecCp: copy_to_queue of a queue, with pushes and a cancel around it.
\* ---------------------------------------------------------------------
SourceTtls == {300}

\* the ttl argument: none, 0, or a number of seconds
TtlArgs == {<< >>, Some(0), Some(120)}

\* kinds of the messages pushed: dict data and tuple data
CopiedKinds == {"values", "messages"}

CpFrame == UNCHANGED <<threads, tmVars, runVars, qVars, sVars, gVars, fVars,
                       bVars, kVars, mVars, xVars>>

\* push(message) on a queue object: append (memory), XADD and EXPIRE (Redis)
PushTo(q, m) ==
  [q EXCEPT !.stream = Append(@, Stored(q.backend, q.stream, m)),
            !.expire = IF q.backend = "redis" THEN q.ttl ELSE @]

RECURSIVE PushAll(_, _)
PushAll(q, ms) ==
  IF ms = << >> THEN q ELSE PushAll(PushTo(q, Head(ms)), Tail(ms))

\* ttl or self.ttl
CopyTtl(ttl, own) == IF ttl # << >> /\ ttl[1] # 0 THEN ttl[1] ELSE own

\* A copy that takes the source's cancellation flag along.
CopyToQueueWithFlag(q, ttl) ==
  [PushAll(EmptyQueue(q.backend, CopyTtl(ttl, q.ttl)),
           GetAllList(q.backend, q.stream))
     EXCEPT !.flag = q.flag]

\* copy_to_queue(to_id, ttl): the queue it returns
CopyToQueue(q, ttl) ==
  IF q.backend = "memory"
    THEN [EmptyQueue("memory", CopyTtl(ttl, q.ttl)) EXCEPT !.stream = q.stream]
    ELSE PushAll(EmptyQueue("redis", CopyTtl(ttl, q.ttl)),
                 GetAllList("redis", q.stream))

\* the messages a reader of the queue object gets
MessagesOf(q) == GetAllList(q.backend, q.stream)

PushedSoFar == Len(qsrc.stream) + (IF qcopy = NoQueue THEN 0 ELSE Len(qcopy.stream))

\* push on the source
CpPushSource(k) ==
  /\ Len(qsrc.stream) < MaxPush
  /\ qsrc' = PushTo(qsrc, ProducerMsg(k, PushedSoFar + 1))
  /\ qhist' = IF qhist.called
                THEN [qhist EXCEPT !.src = Append(@, ProducerMsg(k, PushedSoFar + 1))]
                ELSE qhist
  /\ qcopy' = qcopy
  /\ CpFrame

\* push on the copy
CpPushCopy(k) ==
  /\ qcopy # NoQueue
  /\ Len(qcopy.stream) < MaxPush
  /\ qcopy' = PushTo(qcopy, ProducerMsg(k, PushedSoFar + 1))
  /\ qhist' = [qhist EXCEPT !.copy = Append(@, ProducerMsg(k, PushedSoFar + 1))]
  /\ qsrc' = qsrc
  /\ CpFrame

\* cancel() of the source, before the copy is made
CpCancelSource ==
  /\ qcopy = NoQueue
  /\ CancelProceeds(qsrc.flag)
  /\ Len(qsrc.stream) < MaxPush
  /\ qsrc' = [PushTo(qsrc, CancelMsg(qsrc.backend))
                EXCEPT !.flag = TRUE, !.key = (qsrc.backend = "redis")]
  /\ UNCHANGED <<qcopy, qhist>>
  /\ CpFrame

\* copy_to_queue(to_id, ttl) on the source
CpCopy(ttl) ==
  /\ qcopy = NoQueue
  /\ qcopy' = CopyToQueue(qsrc, ttl)
  /\ qhist' = [called |-> TRUE, ttl |-> ttl, snap |-> MessagesOf(qsrc),
               src |-> << >>, copy |-> << >>]
  /\ qsrc' = qsrc
  /\ CpFrame

InitCp ==
  /\ threads = << >>
  /\ TMInit
  /\ RunInit
  /\ QInit("memory")
  /\ SInit("memory")
  /\ GInit
  /\ FInit
  /\ BInit
  /\ KInit("pg")
  /\ MInit
  /\ \E b \in Backends, ttl \in SourceTtls : CpInit(b, ttl)
  /\ XInit

NextCp ==
  \/ \E k \in CopiedKinds : CpPushSource(k)
  \/ \E k \in CopiedKinds : CpPushCopy(k)
  \/ CpCancelSource
  \/ \E ttl \in TtlArgs : CpCopy(ttl)

SpecCp == InitCp /\ [][NextCp]_vars

\* The messages of the copy and of the source are the source's messages at
\* the call followed by what was pushed to each since; the copy's flag is
\* unset; copy_to_queue leaves the source as it was.
CopyKeepsMessages ==
  /\ qhist.called =>
       /\ MessagesOf(qcopy) = qhist.snap \o ReadAll(qcopy.backend, qhist.copy)
       /\ MessagesOf(qsrc) = qhist.snap \o ReadAll(qsrc.backend, qhist.src)
       /\ ~qcopy.flag
       /\ ~qcopy.key

CopyLeavesSource == [][\A ttl \in TtlArgs : CpCopy(ttl) => qsrc' = qsrc]_vars

SearchMatching ==
  {i \in 1..Len(fargs.store) :
     /\ fargs.ids # << >> => fargs.store[i].thread_id \in fargs.ids[1]
     /\ fargs.status # None => fargs.store[i].status = fargs.status
     /\ fargs.metadata # << >> =>
          \A key \in DOMAIN fargs.metadata[1] :
            /\ key \in DOMAIN fargs.store[i].metadata
            /\ fargs.store[i].metadata[key] = fargs.metadata[1][key]}

\* C29: in every thread-manager backend, search returns exactly the stored
\* threads that satisfy all supplied filters (id in ids, status equal,
\* every supplied metadata key present with an equal value), sliced by
\* offset and limit: at most limit results, none when offset is at least
\* the number of matches.
C29_SearchReturnsMatches ==
  fresult.kind = "threads" =>
    LET n == Cardinality(SearchMatching)
        res == fresult.list
    IN  /\ \A i \in 1..Len(res) :
             \E j \in SearchMatching : res[i] = fargs.store[j]
        /\ \A i, j \in 1..Len(res) : i # j => res[i] # res[j]
        /\ Len(res) = IF fargs.offset >= n THEN 0
                      ELSE IF n - fargs.offset > fargs.limit THEN fargs.limit
                      ELSE n - fargs.offset

\* the payload is a mapping that holds the key __interrupt__
HasInterruptKey(e) == e.payload.isdict /\ "__interrupt__" \in e.payload.keys

\* call c has taken an event from the graph and not pushed its message yet
Handling(c) == epc[c] \in {"handle_intr", "handle_push"}

\* C30: in a stateful run, for every produced event whose payload is a
\* mapping holding the key __interrupt__, the thread status is set to
\* interrupted before the event's message is pushed, and the message is
\* still pushed; handling an event without the key, or whose payload is not
\* a mapping, does not change the thread status.
C30_InterruptedBeforePush ==
  [][\A c \in Calls :
       LET t == req[c].thread
       IN  /\ (~Handling(c) /\ Handling(c)') =>
                /\ pushLog'[c] = pushLog[c]
                /\ threads' = threads
                /\ (epc'[c] = "handle_intr") = HasInterruptKey(cur'[c])
           /\ (epc[c] = "handle_intr" /\ epc'[c] # "handle_intr") =>
                /\ HasInterruptKey(cur[c])
                /\ threads'[t].status = "interrupted"
                /\ \A u \in DOMAIN threads \ {t} : threads'[u] = threads[u]
                /\ pushLog'[c] = pushLog[c]
                /\ cur'[c] = cur[c]
                /\ epc'[c] = "handle_push"
           /\ (epc[c] = "handle_push" /\ epc'[c] # "handle_push") =>
                /\ pushLog'[c] = Append(pushLog[c], EventMsg(cur[c]))
                /\ threads' = threads
                /\ ~Handling(c)']_vars

\* a run has pushed the message of an interrupt event and of an event whose
\* payload is None, and the thread is interrupted
C30_Witness ==
  \E c \in Calls :
    /\ \E i \in 1..Len(pushLog[c]) :
         pushLog[c][i] = EventMsg(SubgraphInterruptEvent)
    /\ \E i \in 1..Len(pushLog[c]) : pushLog[c][i] = EventMsg(NonePayloadEvent)
    /\ req[c].thread \in DOMAIN threads
    /\ threads[req[c].thread].status = "interrupted"

\* the message a graph event stands for, by its shape
DecodedByShape(e) ==
  CASE e.shape = "bare" -> [event |-> "values", data |-> e.payload]
    [] e.shape = "pair" -> [event |-> e.mode, data |-> e.payload]
    [] e.shape = "triple" ->
         [event |-> e.mode, data |-> [namespace |-> e.ns, data |-> e.payload]]

\* the message of a triple whose namespace is None carries the bare payload
DecodedByNamespace(e) ==
  IF e.shape = "triple" /\ e.ns = None
    THEN [event |-> e.mode, data |-> e.payload]
    ELSE DecodedByShape(e)

\* C31 as stated: handling one graph event pushes exactly one message,
\* decoded by shape: a bare payload gives event values and data = payload,
\* a pair gives event = mode and data = payload, a triple gives event = mode
\* and data = {namespace, data: payload}, in both executors and for any
\* payload.
C31_OneMessageByShape ==
  fresult.kind = "pushes" =>
    /\ Len(fresult.stateful) = Len(fargs.events) + 2
    /\ Len(fresult.stateless) = Len(fargs.events) + 2
    /\ \A i \in 1..Len(fargs.events) :
         /\ fresult.stateful[i + 1] = DecodedByShape(fargs.events[i])
         /\ fresult.stateless[i + 1] = DecodedByShape(fargs.events[i])

\* C31, amended: as above, but a triple whose namespace is None gives
\* data = payload, unwrapped.
C31_OneMessageByShapeAndNamespace ==
  fresult.kind = "pushes" =>
    /\ Len(fresult.stateful) = Len(fargs.events) + 2
    /\ Len(fresult.stateless) = Len(fargs.events) + 2
    /\ \A i \in 1..Len(fargs.events) :
         /\ fresult.stateful[i + 1] = DecodedByNamespace(fargs.events[i])
         /\ fresult.stateless[i + 1] = DecodedByNamespace(fargs.events[i])

\* a run has handled a namespaced triple and a pair whose payload is None
C31_Witness ==
  /\ fresult.kind = "pushes"
  /\ Len(fargs.events) = 2
  /\ fargs.events[1] = SubgraphInterruptEvent
  /\ fargs.events[2] = NonePayloadEvent
  /\ fresult.stateless[2].data.namespace = "sub"

\* the messages begin with the run's metadata message, no message before
\* the last is terminal, and once stream_graph is over the last one is
\* __stream_end__ or __stream_error__
MetadataEventsTerminal(c) ==
  LET log == pushLog[c]
  IN  /\ Len(log) >= 1 =>
           /\ log[1].event = "metadata"
           /\ log[1].data = [thread_id |-> req[c].thread,
                             assistant_id |-> req[c].assistant_id]
      /\ \A i \in 2..Len(log) - 1 :
           log[i].event \notin TerminalKinds \cup {"metadata"}
      /\ RunEnded(c) =>
           /\ Len(log) >= 2
           /\ log[Len(log)].event \in {"__stream_end__", "__stream_error__"}

\* one message per graph event, in the order of the events; the status is
\* written busy in the step before the metadata message is pushed
EventsPushedInOrder(c) ==
  /\ (cur'[c] # cur[c] /\ cur'[c] # NoEvent) => cur[c] = NoEvent
  /\ (cur[c] # NoEvent /\ cur'[c] = NoEvent) =>
       pushLog'[c] = Append(pushLog[c], EventMsg(cur[c]))
  /\ (epc[c] # "push_meta" /\ epc'[c] = "push_meta") =>
       /\ pushLog[c] = << >>
       /\ threads'[req[c].thread].status = "busy"
  /\ (pushLog[c] = << >> /\ pushLog'[c] # << >>) => epc[c] = "push_meta"

ManagerCallFailed(c) == exc[c] = NotFoundExc \/ exc'[c] = NotFoundExc

ResumeDirective(command) ==
  LET g == command.goto
      one(item) == IF item.kind = "Send"
                     THEN [kind |-> "LangGraphSend", node |-> item.node,
                           arg |-> item.input]
                     ELSE item
  IN  [kind |-> "Command", update |-> command.update,
       resume |-> command.resume,
       goto |-> IF g.kind = "list" /\ g.items # << >>
                  THEN [kind |-> "list",
                        items |-> [i \in 1..Len(g.items) |-> one(g.items[i])]]
                ELSE IF g.kind = "Send" \/ (g.kind = "str" /\ g.name # "")
                  THEN one(g)
                ELSE NoGoto]

\* C33: the input handed to the graph is the resume directive built from
\* the request's Command when there is one, whatever the input field holds;
\* without a Command it is the input payload as given, and the empty object
\* only when no input was given.
C33_InputChosen ==
  fresult.kind = "graph_input" =>
    IF fargs.command # << >>
      THEN fresult.value = ResumeDirective(fargs.command[1])
      ELSE fresult.value =
             [kind |-> "input",
              value |-> IF fargs.input = << >> THEN EmptyDict
                        ELSE fargs.input[1]]

\* C34: in a stateless run that ends without exception, the terminal
\* __stream_end__ message has status interrupted if and only if at least
\* one handled event had a mapping payload holding __interrupt__, and
\* status success otherwise; exactly one __stream_end__ is pushed and no
\* thread record is created or changed.
C34_StatelessEndStatus ==
  (fresult.kind = "pushes" /\ fargs.exc = NoExc) =>
    LET log == fresult.stateless
        interrupted ==
          \E i \in 1..Len(fargs.events) :
            /\ fargs.events[i].payload.isdict
            /\ "__interrupt__" \in fargs.events[i].payload.keys
    IN  /\ Cardinality({i \in 1..Len(log) : log[i].event = "__stream_end__"}) = 1
        /\ log[Len(log)].event = "__stream_end__"
        /\ log[Len(log)].data.status =
             IF interrupted THEN "interrupted" ELSE "success"
        /\ threads = << >>

\* a stateless run handled an interrupt and then a plain event, and ended
\* with status interrupted
C34_Witness ==
  /\ fresult.kind = "pushes"
  /\ fargs.exc = NoExc
  /\ Len(fargs.events) = 2
  /\ fargs.events[1] = DemoInterruptEvent
  /\ fargs.events[2] = ValuesEvent
  /\ fresult.stateless[4] = EndMsg("interrupted")

ConsumerOwnStep ==
  \/ MemCheck
  \/ MemYield
  \/ MemRelease
  \/ MemWake
  \/ RedisCheck
  \/ RedisGetKey
  \/ RedisXRead
  \/ RedisYield

\* The producer goes on pushing and a push that waits for the lock gets it
\* when it is released; the consumer may stay suspended at a yield.
ProducerFairSpecQ ==
  /\ SpecQ
  /\ SF_vars(\E k \in PushKinds : QPush(k))
  /\ WF_vars(ConsumerOwnStep)

\* C36: a push on a queue always completes and appends its message,
\* whatever the consumer is doing: when the queue has been cancelled, when
\* no consumer exists, and when a consumer of on_data_receive is suspended
\* between two messages or has stopped iterating without finishing.
C36_PushAlwaysCompletes ==
  /\ [][npush' # npush => Len(pushed') = Len(pushed) + 1]_vars
  /\ <>(npush = MaxPush)

\* ---------------------------------------------------------------------
\* SpecX: RedisStreamQueue.on_data_receive over a stream that holds
\* entries of any kind, with Redis commands that may fail.
\* ---------------------------------------------------------------------

\* entries of the stream
MaxEntries == 2

\* Redis commands that raise RedisError
MaxErrors == 4

\* max_retries of on_data_receive
MaxRetries == 3

\* a stream entry: the JSON of a message, of a terminal message, a data
\* field that is no EventMessage, or fields without "data"
EntryKinds == {"values", "__stream_end__", "bad_json", "no_data"}

EntrySeqs == UNION {[1..n -> EntryKinds] : n \in 0..MaxEntries}

XFrame == UNCHANGED <<threads, tmVars, runVars, qVars, sVars, gVars, fVars,
                      bVars, kVars, mVars, cpVars>>

\* except RedisError: the count, the stop at max_retries, else sleep and
\* the next turn of the loop
OnRedisError(r) ==
  [r EXCEPT !.retry_count = r.retry_count + 1,
            !.errors = r.errors + 1,
            !.batch = << >>,
            !.pc = IF r.retry_count + 1 >= MaxRetries THEN "done" ELSE "get"]

\* xread returned: the count is reset; no data -> continue, else the
\* entries after last_id are processed
AfterXRead(r) ==
  LET found == {i \in 1..Len(r.entries) : i > r.last_id}
      later == [i \in 1..Cardinality(found) |-> r.last_id + i]
  IN  [r EXCEPT !.retry_count = 0,
                !.batch = SubSeq(later, 1, IF Len(later) < XReadCount
                                             THEN Len(later) ELSE XReadCount),
                !.pc = IF later = << >> THEN "get" ELSE "batch"]

\* redis.get(cancel_key) of the loop: the key is not set, or RedisError
XGetCancelKey ==
  /\ rdr.pc = "get"
  /\ \/ rdr' = [rdr EXCEPT !.pc = "xread"]
     \/ /\ rdr.errors < MaxErrors
        /\ rdr' = OnRedisError(rdr)
  /\ XFrame

\* redis.xread from last_id, or RedisError
XReadEntries ==
  /\ rdr.pc = "xread"
  /\ \/ rdr' = AfterXRead(rdr)
     \/ /\ rdr.errors < MaxErrors
        /\ rdr' = OnRedisError(rdr)
  /\ XFrame

\* the next entry of the batch: without "data" it is passed over; a data
\* field that does not validate raises, the exception is logged and after
\* a sleep the loop goes on; else the message is yielded
XEntry ==
  /\ rdr.pc = "batch"
  /\ rdr' =
       IF rdr.batch = << >> THEN [rdr EXCEPT !.pc = "get"]
       ELSE CASE rdr.entries[Head(rdr.batch)] = "no_data" ->
                   [rdr EXCEPT !.batch = Tail(rdr.batch)]
              [] rdr.entries[Head(rdr.batch)] = "bad_json" ->
                   [rdr EXCEPT !.batch = << >>, !.pc = "get"]
              [] OTHER -> [rdr EXCEPT !.pc = "yielded"]
  /\ XFrame

\* resumed after the yield: last_id = msg_id, return on a terminal event
XResume ==
  /\ rdr.pc = "yielded"
  /\ rdr' = [rdr EXCEPT !.last_id = Head(rdr.batch),
                        !.batch = Tail(rdr.batch),
                        !.pc = IF rdr.entries[Head(rdr.batch)] \in TerminalKinds
                                 THEN "done" ELSE "batch"]
  /\ XFrame

InitX ==
  /\ threads = << >>
  /\ TMInit
  /\ RunInit
  /\ QInit("redis")
  /\ SInit("memory")
  /\ GInit
  /\ FInit
  /\ BInit
  /\ KInit("pg")
  /\ MInit
  /\ CpInit("memory", 300)
  /\ \E e \in EntrySeqs : rdr = [NoReader EXCEPT !.pc = "get", !.entries = e]

NextX ==
  \/ XGetCancelKey
  \/ XReadEntries
  \/ XEntry
  \/ XResume

SpecX == InitX /\ [][NextX]_vars

\* The reader is iterated to its end.
FairSpecX == SpecX /\ WF_vars(NextX)

\* C37: the distributed-queue reader stops reading after 3 consecutive
\* transport errors, the error count being reset to zero by every
\* successful read, and for every kind of failure while reading or
\* decoding a message the loop terminates or makes progress: it never
\* re-reads the same stream position forever.
C37_ReaderStopsOrMovesOn ==
  /\ [](rdr.retry_count >= MaxRetries => rdr.pc = "done")
  /\ [][(rdr.pc = "xread" /\ rdr'.errors = rdr.errors) =>
          rdr'.retry_count = 0]_vars
  /\ \A p \in 0..MaxEntries :
       (rdr.last_id = p /\ p < Len(rdr.entries))
         ~> (rdr.last_id > p \/ rdr.pc = "done")

\* the positions of the terminal messages among those the run has pushed
TerminalsPushed(c) ==
  {i \in 1..Len(pushLog[c]) :
     pushLog[c][i].event \in {"__stream_end__", "__stream_error__"}}

\* C38: every execution of stream_graph pushes exactly one terminal message
\* in total, __stream_end__ or the error event and never both, and pushes
\* nothing after it, also when a thread-manager call made during
\* finalization fails because the thread was deleted while the run was in
\* progress.
C38_ExactlyOneTerminal ==
  \A c \in Calls :
    /\ Cardinality(TerminalsPushed(c)) <= 1
    /\ \A i \in TerminalsPushed(c) : i = Len(pushLog[c])
    /\ RunEnded(c) => Cardinality(TerminalsPushed(c)) = 1

\* C39: if create_run_stream fails synchronously with any error, the
\* thread's status after the call equals its status before the call; a
\* request naming an unregistered assistant or graph does not leave the
\* thread busy.
C39_FailedCallKeepsStatus ==
  [][\A c \in Calls :
       (rpc[c] # "failed" /\ rpc'[c] = "failed") =>
         LET t == req'[c].thread
         IN  IF rerr'[c] = "GraphNotFoundError"
               THEN threads'[t].status = pre[c].status
               ELSE threads' = threads]_vars

\* C40: after the background task of a run has cleaned up the run's queue,
\* the queue manager no longer tracks that queue: in every state the
\* queues held by the manager are queues of runs that have not been
\* cleaned up yet.
C40_ManagerHoldsOnlyLiveQueues ==
  \A id \in DOMAIN mqueues : ~mheap[mqueues[id]].cleaned

====
